---------------------------- MODULE Spec2Model ----------------------------
(***************************************************************************)
(* Model of the tofuCTAAssistant middleware.                               *)
(*                                                                         *)
(* State machines of this module:                                          *)
(*                                                                         *)
(*  FlowSpec  one conversation flow (create conversation, submit input,    *)
(*            poll loop) in each of its three copies:                      *)
(*              "sync"  app.post('/')        src/unnamed/part_000          *)
(*              "job"   processJobAsync      src/app.js                    *)
(*              "conv"  processConversation  src/salesforce.js             *)
(*                                                                         *)
(*  Spec      POST /jobs: several requests interleaving at their await     *)
(*            points against one CRM, each followed by its background      *)
(*            task, in the two copies of the handler:                      *)
(*              "app"      src/app.js                                      *)
(*              "modular"  src/unnamed/part_001 with src/salesforce.js     *)
(***************************************************************************)
EXTENDS Integers, Sequences, FiniteSets, TLC

(***************************************************************************)
(* JSON values as the poll loop inspects them.                             *)
(***************************************************************************)
Arr(seq) == [t |-> "array", items |-> seq, s |-> ""]

Str(x) == [t |-> "string", items |-> <<>>, s |-> x]

Obj == [t |-> "object", items |-> <<>>, s |-> ""]

Null == [t |-> "null", items |-> <<>>, s |-> ""]

Undefined == [t |-> "undefined", items |-> <<>>, s |-> ""]

\* Array.isArray(v)
IsArray(v) == v.t = "array"

\* v[i] of a JavaScript array, zero-based: undefined past the end
At(v, i) == IF i < Len(v.items) THEN v.items[i + 1] ELSE Undefined

\* Result payloads X a run may carry
Payloads == {Str("answer"), Arr(<<>>)}

\* The response bodies a poll may return
ResponseShapes ==
    {Null, Obj, Str("done"), Arr(<<>>),
     Arr(<<Arr(<<>>)>>),
     Arr(<<Arr(<<Str("done")>>)>>),
     Arr(<<Arr(<<Arr(<<Str("done")>>), Str("answer")>>)>>)}
    \cup {Arr(<<Str("done"), x>>) : x \in Payloads}
    \cup {Arr(<<Arr(<<Str("running"), x>>)>>) : x \in Payloads}
    \cup {Arr(<<Arr(<<Str("DONE"), x>>)>>) : x \in Payloads}
    \cup {Arr(<<Arr(<<Str("done"), x>>)>>) : x \in Payloads}
    \cup {Arr(<<Arr(<<Str("done"), x>>), Arr(<<Str("meta")>>)>>) : x \in Payloads}
    \cup {Arr(<<Arr(<<Str("done"), x, Str("extra")>>)>>) : x \in Payloads}

(***************************************************************************)
(* Errors of an outbound call: an HTTP error status, or no response.       *)
(* "thrownByCall" tells the error of a request from a new Error(...) or a  *)
(* TypeError of the code itself; no code reads it.                         *)
(***************************************************************************)
HttpError(st) == [thrownByCall |-> TRUE, hasResponse |-> TRUE, status |-> st]

NetworkError == [thrownByCall |-> TRUE, hasResponse |-> FALSE, status |-> 0]

ErrStatuses == {400, 404, 499, 500, 503}

CallErrors == {HttpError(st) : st \in ErrStatuses} \cup {NetworkError}

\* new Error(...): an error object without a response
LocalError == [thrownByCall |-> FALSE, hasResponse |-> FALSE, status |-> 0]

NoError == [thrownByCall |-> FALSE, hasResponse |-> FALSE, status |-> -1]


\* Faulty variant of Is4xx: the lower bound is exclusive
Is4xxAbove400(error) ==
    error.hasResponse /\ error.status > 400 /\ error.status < 500

Is4xx(error) == error.hasResponse /\ error.status >= 400 /\ error.status < 500

\* The outcome of one awaited outbound call: a response body, or a thrown error
Ok(data) == [ok |-> TRUE, data |-> data, error |-> NoError]

Failed(error) == [ok |-> FALSE, data |-> Undefined, error |-> error]

PollOutcomes == {Ok(d) : d \in ResponseShapes} \cup {Failed(e) : e \in CallErrors}

(***************************************************************************)
(* The poll loop.  A loop state is the loop's local variables; one step is *)
(* one iteration: the wait, the GET, and the try or catch branch taken.    *)
(* "thrown" is the error the iteration throws out of the loop, NoError     *)
(* when it throws nothing.                                                 *)
(***************************************************************************)
maxConsecutiveErrors == 5

\* Polls one flow is followed through
MaxPolls == 8

NoId == ""

LoopInit == [isDone |-> FALSE, chatDone |-> Null, consecutiveErrors |-> 0,
             thrown |-> NoError]

\* Faulty variant of IsDoneResponse: the marker is compared ignoring case
IsDoneResponseAnyCase(responseData) ==
    /\ IsArray(responseData)
    /\ Len(responseData.items) > 0
    /\ LET firstElement == At(responseData, 0)
       IN  /\ IsArray(firstElement)
           /\ Len(firstElement.items) > 0
           /\ At(firstElement, 0) \in {Str("done"), Str("DONE")}

IsDoneResponse(responseData) ==
    /\ IsArray(responseData)
    /\ Len(responseData.items) > 0
    /\ LET firstElement == At(responseData, 0)
       IN  /\ IsArray(firstElement)
           /\ Len(firstElement.items) > 0
           /\ At(firstElement, 0) = Str("done")

\* Faulty variant of PollTry: the result is read from the wrong member of the pair
PollTryFirstMember(loop, responseData) ==
    IF IsDoneResponse(responseData)
    THEN [loop EXCEPT !.consecutiveErrors = 0, !.isDone = TRUE,
                      !.chatDone = At(At(responseData, 0), 0)]
    ELSE [loop EXCEPT !.consecutiveErrors = 0]

\* Faulty variant of PollTry: an answered poll leaves the failure count as it is
PollTryKeepsCount(loop, responseData) ==
    IF IsDoneResponse(responseData)
    THEN [loop EXCEPT !.isDone = TRUE,
                      !.chatDone = At(At(responseData, 0), 1)]
    ELSE loop

PollTry(loop, responseData) ==
    IF IsDoneResponse(responseData)
    THEN [loop EXCEPT !.consecutiveErrors = 0, !.isDone = TRUE,
                      !.chatDone = At(At(responseData, 0), 1)]
    ELSE [loop EXCEPT !.consecutiveErrors = 0]

\* Faulty variant of PollCatch: the bound is compared with > instead of >=
PollCatchOffByOne(loop, pollError) ==
    LET n == loop.consecutiveErrors + 1
    IN  IF n > maxConsecutiveErrors
        THEN [loop EXCEPT !.consecutiveErrors = n, !.thrown = pollError]
        ELSE IF Is4xx(pollError)
        THEN [loop EXCEPT !.consecutiveErrors = n, !.thrown = pollError]
        ELSE [loop EXCEPT !.consecutiveErrors = n]

\* catch (pollError) of processConversation and processJobAsync: rethrows pollError
PollCatch(loop, pollError) ==
    LET n == loop.consecutiveErrors + 1
    IN  IF n >= maxConsecutiveErrors
        THEN [loop EXCEPT !.consecutiveErrors = n, !.thrown = pollError]
        ELSE IF Is4xx(pollError)
        THEN [loop EXCEPT !.consecutiveErrors = n, !.thrown = pollError]
        ELSE [loop EXCEPT !.consecutiveErrors = n]

\* catch (pollError) of app.post('/'): throws a new Error carrying no response
PollCatchSync(loop, pollError) ==
    LET n == loop.consecutiveErrors + 1
    IN  IF n >= maxConsecutiveErrors
        THEN [loop EXCEPT !.consecutiveErrors = n, !.thrown = LocalError]
        ELSE IF Is4xx(pollError)
        THEN [loop EXCEPT !.consecutiveErrors = n, !.thrown = LocalError]
        ELSE [loop EXCEPT !.consecutiveErrors = n]

PollStepSync(loop, outcome) ==
    IF outcome.ok THEN PollTry(loop, outcome.data)
    ELSE PollCatchSync(loop, outcome.error)

PollStepJob(loop, outcome) ==
    IF outcome.ok THEN PollTry(loop, outcome.data)
    ELSE PollCatch(loop, outcome.error)

PollStepConv(loop, outcome) ==
    IF outcome.ok THEN PollTry(loop, outcome.data)
    ELSE PollCatch(loop, outcome.error)

\* while (!isDone): the loop is left by isDone or by a throw
LoopRunning(loop) == ~loop.isDone /\ loop.thrown = NoError

(***************************************************************************)
(* Text.  A string is the sequence of its characters; the history of a     *)
(* tracking record is one string of HTML.                                  *)
(***************************************************************************)
UlOpen == <<"<", "u", "l", ">">>

UlClose == <<"<", "/", "u", "l", ">">>

LiOpen == <<"<", "l", "i", ">">>

LiClose == <<"<", "/", "l", "i", ">">>

\* The characters escapeHtml replaces
Reserved == {"&", "<", ">", "\"", "'"}

\* The entity written for a reserved character
Entity(c) ==
    CASE c = "&"  -> <<"&", "a", "m", "p", ";">>
      [] c = "<"  -> <<"&", "l", "t", ";">>
      [] c = ">"  -> <<"&", "g", "t", ";">>
      [] c = "\"" -> <<"&", "q", "u", "o", "t", ";">>
      [] c = "'"  -> <<"&", "#", "3", "9", ";">>

\* str.replace(/c/g, by): every occurrence of the character c, left to right
RECURSIVE ReplaceAll(_, _, _)
ReplaceAll(str, c, by) ==
    IF str = <<>> THEN <<>>
    ELSE (IF Head(str) = c THEN by ELSE <<Head(str)>>)
         \o ReplaceAll(Tail(str), c, by)

\* Faulty variant of escapeHtml: the ampersand is replaced last
escapeHtmlAmpersandLast(str) ==
    ReplaceAll(ReplaceAll(ReplaceAll(ReplaceAll(ReplaceAll(str,
        "<", Entity("<")), ">", Entity(">")), "\"", Entity("\"")),
        "'", Entity("'")), "&", Entity("&"))

\* String(str).replace(/&/g,'&amp;').replace(/</g,'&lt;').replace(/>/g,'&gt;')
\*             .replace(/"/g,'&quot;').replace(/'/g,'&#39;')
escapeHtml(str) ==
    ReplaceAll(ReplaceAll(ReplaceAll(ReplaceAll(ReplaceAll(str,
        "&", Entity("&")), "<", Entity("<")), ">", Entity(">")),
        "\"", Entity("\"")), "'", Entity("'"))

\* Characters trim() removes
Whitespace == {" ", "\t", "\n"}

\* !str || str.trim() === ''
IsBlank(str) == \A i \in 1..Len(str) : str[i] \in Whitespace

\* str.lastIndexOf(pat): the zero-based index of the last occurrence, or -1
LastIndexOf(str, pat) ==
    LET hits == {i \in 0..(Len(str) - Len(pat)) :
                    SubSeq(str, i + 1, i + Len(pat)) = pat}
    IN  IF hits = {} THEN -1
        ELSE CHOOSE i \in hits : \A j \in hits : j <= i

\* `<li>${escapeHtml(assistantContent)}</li>`
NewLi(text) == LiOpen \o escapeHtml(text) \o LiClose

\* Faulty variant of NewHistory: the entry is inserted before the first </ul>
NewHistoryFirstClose(history, text) ==
    LET hits == {i \in 0..(Len(history) - Len(UlClose)) :
                    SubSeq(history, i + 1, i + Len(UlClose)) = UlClose}
        first == CHOOSE i \in hits : \A j \in hits : i <= j
    IN  IF IsBlank(history) THEN UlOpen \o NewLi(text) \o UlClose
        ELSE IF hits # {}
        THEN SubSeq(history, 1, first) \o NewLi(text)
             \o SubSeq(history, first + 1, Len(history))
        ELSE history \o UlOpen \o NewLi(text) \o UlClose

\* The history written back: the new entry goes into the last <ul> of the
\* current history, or into a <ul> of its own
NewHistory(history, text) ==
    LET ulCloseIndex == LastIndexOf(history, UlClose)
    IN  IF IsBlank(history) THEN UlOpen \o NewLi(text) \o UlClose
        ELSE IF ulCloseIndex # -1
        THEN SubSeq(history, 1, ulCloseIndex) \o NewLi(text)
             \o SubSeq(history, ulCloseIndex + 1, Len(history))
        ELSE history \o UlOpen \o NewLi(text) \o UlClose

(***************************************************************************)
(* Extraction of the assistant content from the terminal payload           *)
(* (chatDoneResult).  A payload is a sequence of entries, a string, an     *)
(* object, null or undefined; an entry has a role, parts and a content,    *)
(* each possibly absent ("" for an absent or empty string), or is null.    *)
(***************************************************************************)
NoEntries == <<>>

ArrayPayload(entries) == [k |-> "array", entries |-> entries, text |-> ""]

StringPayload(text) == [k |-> "string", entries |-> NoEntries, text |-> text]

ObjectPayload == [k |-> "object", entries |-> NoEntries, text |-> ""]

NullPayload == [k |-> "null", entries |-> NoEntries, text |-> ""]

UndefinedPayload == [k |-> "undefined", entries |-> NoEntries, text |-> ""]

\* The values assistantContent takes: a string, JSON.stringify of the payload,
\* or the payload itself
TextContent(text) == [kind |-> "text", text |-> text, of |-> NullPayload]

JsonContent(p) == [kind |-> "json", text |-> "", of |-> p]

RawContent(p) == [kind |-> "raw", text |-> "", of |-> p]

\* !value
Falsy(c) == c.kind = "text" /\ c.text = ""

\* !chatDoneResult
FalsyPayload(p) == p.k \in {"null", "undefined"} \/ (p.k = "string" /\ p.text = "")

\* str.toUpperCase(), for the role and type names the model uses
ToUpperCase(str) ==
    CASE str = "Assistant" -> "ASSISTANT"
      [] str = "user"      -> "USER"
      [] str = "Markdown"  -> "MARKDOWN"
      [] str = "text"      -> "TEXT"
      [] OTHER             -> str

\* m.role && m.role.toUpperCase() === 'ASSISTANT'
IsAssistant(m) == m.role # "" /\ ToUpperCase(m.role) = "ASSISTANT"

\* p.type && p.type.toUpperCase() === 'MARKDOWN'
IsMarkdown(part) == part.type # "" /\ ToUpperCase(part.type) = "MARKDOWN"

\* Array.prototype.find: the first of the indexes whose element satisfies the
\* test, 0 when there is none
FindIndex(hits) ==
    IF hits = {} THEN 0 ELSE CHOOSE i \in hits : \A j \in hits : i <= j

\* The callback of find reads m.role of a null entry: a TypeError, when such
\* an entry comes before the first assistant entry
FindThrows(entries) ==
    \E i \in 1..Len(entries) :
        entries[i].nil /\ \A j \in 1..(i - 1) : ~IsAssistant(entries[j])

\* What the assistant entry yields: a part's content, its own content, or ''
FromEntry(assistantEntry) ==
    IF assistantEntry.hasParts /\ Len(assistantEntry.parts) > 0
    THEN LET md == FindIndex({i \in 1..Len(assistantEntry.parts) :
                                   IsMarkdown(assistantEntry.parts[i])})
         IN  IF md # 0 /\ assistantEntry.parts[md].content # ""
             THEN assistantEntry.parts[md].content
             ELSE IF assistantEntry.parts[1].content # ""
             THEN assistantEntry.parts[1].content
             ELSE ""
    ELSE assistantEntry.content

\* The try block and its catch
ExtractTry(chatDoneResult) ==
    IF chatDoneResult.k = "array"
    THEN IF FindThrows(chatDoneResult.entries)
         THEN JsonContent(chatDoneResult)
         ELSE LET a == FindIndex({i \in 1..Len(chatDoneResult.entries) :
                                     IsAssistant(chatDoneResult.entries[i])})
              IN  IF a = 0 THEN TextContent("")
                  ELSE TextContent(FromEntry(chatDoneResult.entries[a]))
    ELSE IF chatDoneResult.k = "string" THEN TextContent(chatDoneResult.text)
    ELSE TextContent("")

\* The assistant content of a terminal payload: the try block, then
\* if (!assistantContent) assistantContent = Array.isArray(chatDoneResult)
\*     ? JSON.stringify(chatDoneResult) : (chatDoneResult || '')
ExtractContent(chatDoneResult) ==
    LET assistantContent == ExtractTry(chatDoneResult)
    IN  IF ~Falsy(assistantContent) THEN assistantContent
        ELSE IF chatDoneResult.k = "array" THEN JsonContent(chatDoneResult)
        ELSE IF FalsyPayload(chatDoneResult) THEN TextContent("")
        ELSE RawContent(chatDoneResult)

(***************************************************************************)
(* State.                                                                  *)
(***************************************************************************)
VARIABLES
    \* ---- one conversation flow (FlowSpec) ----
    variant,            \* which copy of the flow runs: "sync", "job", "conv"
    params,             \* the request body / the params object
    pc,                 \* the await the flow is suspended at, or where it ended
    finalConversationId,
    runId,
    loop,               \* isDone, chatDone, consecutiveErrors of the poll loop
    response,           \* the HTTP response of POST / (status 0: none sent yet)
    \* history of the flow, written by no code
    attempts,           \* requests issued per outbound call
    lastPoll,           \* outcome of the latest poll
    failStreak,         \* failed polls since the latest poll that got a response
    cause               \* the call whose failure ended the flow, and its error

flowVars == <<variant, params, pc, finalConversationId, runId, loop, response,
              attempts, lastPoll, failStreak, cause>>

Variants == {"sync", "job", "conv"}

Calls == {"create", "submit", "poll", "retrieve", "update"}

NoResponse == [status |-> 0, success |-> FALSE, conversationId |-> NoId,
               runId |-> NoId, chatDone |-> Null]

NoCause == [call |-> "none", error |-> NoError]

NoPoll == [ok |-> FALSE, data |-> Undefined, error |-> NoError]

\* Bodies the create-conversation call may answer with
CreateBodies == {[conversation |-> TRUE, id |-> "c1"],
                 [conversation |-> TRUE, id |-> NoId],
                 [conversation |-> FALSE, id |-> NoId]}

\* Bodies the submit-input call may answer with
SubmitBodies == {[runId |-> "r1"], [runId |-> NoId]}

\* A flow about to run, with any parameters
FlowStartState ==
    /\ variant \in Variants
    /\ params \in [access_token : BOOLEAN, input : BOOLEAN, context : BOOLEAN,
                   conversationId : {NoId, "c0"}]
    /\ pc = "start"
    /\ finalConversationId = NoId
    /\ runId = NoId
    /\ loop = LoopInit
    /\ response = NoResponse
    /\ attempts = [c \in Calls |-> 0]
    /\ lastPoll = NoPoll
    /\ failStreak = 0
    /\ cause = NoCause

\* An error leaves the flow.  In app.post('/') the outer catch answers with the
\* error's response status when it has one, else 500; the other two copies reject
\* the promise they return.
Throw(call, origin, error) ==
    /\ cause' = [call |-> call, error |-> origin]
    /\ IF variant = "sync"
       THEN /\ pc' = "responded"
            /\ response' = [NoResponse EXCEPT
                              !.status = IF error.hasResponse THEN error.status
                                         ELSE 500]
       ELSE /\ pc' = "failed"
            /\ UNCHANGED response

(***************************************************************************)
(* The conversation flow: validation, then create conversation (when no    *)
(* conversationId came with the request), submit input, poll.  Each action *)
(* is one await resolving and the code that runs up to the next await.     *)
(***************************************************************************)
Issue(call) == attempts' = [attempts EXCEPT ![call] = @ + 1]

\* Parameter checks, then the first request goes out.
FlowStart ==
    /\ pc = "start"
    /\ UNCHANGED <<variant, params, runId, loop, attempts, lastPoll, failStreak>>
    /\ finalConversationId' = params.conversationId
    /\ IF variant = "sync" /\ ~(params.access_token /\ params.input /\ params.context)
       THEN /\ pc' = "responded"
            /\ response' = [NoResponse EXCEPT !.status = 400]
            /\ UNCHANGED cause
       ELSE IF variant # "sync" /\ ~params.access_token
       THEN Throw("none", LocalError, LocalError)
       ELSE IF variant = "conv" /\ ~params.input
       THEN Throw("none", LocalError, LocalError)
       ELSE /\ pc' = IF params.conversationId = NoId THEN "create" ELSE "submit"
            /\ UNCHANGED <<response, cause>>

\* POST /conversations answers, or fails with `error`.
FlowCreateConversation(outcome) ==
    /\ pc = "create"
    /\ Issue("create")
    /\ UNCHANGED <<variant, params, runId, loop, lastPoll, failStreak>>
    /\ IF ~outcome.ok
       THEN \* part_000 wraps the error in a new Error; the others let it propagate
            /\ Throw("create", outcome.error,
                     IF variant = "sync" THEN LocalError ELSE outcome.error)
            /\ UNCHANGED finalConversationId
       ELSE IF variant = "sync"
       THEN IF ~outcome.data.conversation
            THEN \* postResponse.data.conversation.id throws a TypeError
                 /\ Throw("create", LocalError, LocalError)
                 /\ UNCHANGED finalConversationId
            ELSE \* no check of the id: the flow goes on, with an undefined id too
                 /\ finalConversationId' = outcome.data.id
                 /\ pc' = "submit"
                 /\ UNCHANGED <<response, cause>>
       ELSE \* postResponse.data.conversation?.id, then if (!finalConversationId) throw
            /\ finalConversationId' = outcome.data.id
            /\ IF outcome.data.id = NoId
               THEN Throw("create", LocalError, LocalError)
               ELSE /\ pc' = "submit"
                    /\ UNCHANGED <<response, cause>>

\* Additional attempts the transport retry policy of the specification allows a
\* single outbound call (no code of the repository sets or reads such a bound)
RetryBound == 2

\* Faulty variant of FlowSubmitInput: a failed PUT is issued again, whatever its error,
\* until RetryBound additional attempts were made
FlowSubmitInputRetrying(outcome) ==
    /\ pc = "submit"
    /\ Issue("submit")
    /\ UNCHANGED <<variant, params, finalConversationId, loop, lastPoll, failStreak>>
    /\ IF ~outcome.ok
       THEN /\ UNCHANGED runId
            /\ IF attempts["submit"] < RetryBound
               THEN UNCHANGED <<pc, response, cause>>
               ELSE Throw("submit", outcome.error,
                          IF variant = "sync" THEN LocalError ELSE outcome.error)
       ELSE /\ runId' = outcome.data.runId
            /\ IF variant # "sync" /\ outcome.data.runId = NoId
               THEN Throw("submit", LocalError, LocalError)
               ELSE /\ pc' = "poll"
                    /\ UNCHANGED <<response, cause>>

\* PUT /conversations/{id} answers, or fails with `error`.
FlowSubmitInput(outcome) ==
    /\ pc = "submit"
    /\ Issue("submit")
    /\ UNCHANGED <<variant, params, finalConversationId, loop, lastPoll, failStreak>>
    /\ IF ~outcome.ok
       THEN /\ Throw("submit", outcome.error,
                     IF variant = "sync" THEN LocalError ELSE outcome.error)
            /\ UNCHANGED runId
       ELSE /\ runId' = outcome.data.runId
            /\ IF variant # "sync" /\ outcome.data.runId = NoId
               THEN \* if (!runId) throw; part_000 has no such check
                    Throw("submit", LocalError, LocalError)
               ELSE /\ pc' = "poll"
                    /\ UNCHANGED <<response, cause>>

PollStep(v, l, outcome) ==
    CASE v = "sync" -> PollStepSync(l, outcome)
      [] v = "job"  -> PollStepJob(l, outcome)
      [] v = "conv" -> PollStepConv(l, outcome)

\* Faulty variant of FlowPoll: processJobAsync leaves the loop on any answer
FlowPollUpdatesEarly(outcome) ==
    /\ pc = "poll"
    /\ LoopRunning(loop)
    /\ attempts["poll"] < MaxPolls
    /\ Issue("poll")
    /\ lastPoll' = outcome
    /\ failStreak' = IF outcome.ok THEN 0 ELSE failStreak + 1
    /\ loop' = PollStep(variant, loop, outcome)
    /\ UNCHANGED <<variant, params, finalConversationId, runId>>
    /\ IF loop'.thrown # NoError
       THEN Throw("poll", outcome.error, loop'.thrown)
       ELSE IF ~loop'.isDone
       THEN /\ pc' = IF variant = "job" THEN "retrieve" ELSE pc
            /\ UNCHANGED <<response, cause>>
       ELSE /\ UNCHANGED cause
            /\ CASE variant = "sync" ->
                      /\ pc' = "responded"
                      /\ response' = [status |-> 200, success |-> TRUE,
                                      conversationId |-> finalConversationId,
                                      runId |-> runId, chatDone |-> loop'.chatDone]
                 [] variant = "job" ->
                      \* processJobAsync goes on to patch the tracking record
                      /\ pc' = "retrieve"
                      /\ UNCHANGED response
                 [] variant = "conv" ->
                      \* processConversation returns its result
                      /\ pc' = "done"
                      /\ UNCHANGED response

\* One iteration of while (!isDone): wait 2 s, GET the run, handle the outcome.
FlowPoll(outcome) ==
    /\ pc = "poll"
    /\ LoopRunning(loop)
    /\ attempts["poll"] < MaxPolls
    /\ Issue("poll")
    /\ lastPoll' = outcome
    /\ failStreak' = IF outcome.ok THEN 0 ELSE failStreak + 1
    /\ loop' = PollStep(variant, loop, outcome)
    /\ UNCHANGED <<variant, params, finalConversationId, runId>>
    /\ IF loop'.thrown # NoError
       THEN Throw("poll", outcome.error, loop'.thrown)
       ELSE IF ~loop'.isDone
       THEN UNCHANGED <<pc, response, cause>>
       ELSE /\ UNCHANGED cause
            /\ CASE variant = "sync" ->
                      /\ pc' = "responded"
                      /\ response' = [status |-> 200, success |-> TRUE,
                                      conversationId |-> finalConversationId,
                                      runId |-> runId, chatDone |-> loop'.chatDone]
                 [] variant = "job" ->
                      \* processJobAsync goes on to patch the tracking record
                      /\ pc' = "retrieve"
                      /\ UNCHANGED response
                 [] variant = "conv" ->
                      \* processConversation returns its result
                      /\ pc' = "done"
                      /\ UNCHANGED response

\* processJobAsync: conn.sobject(...).retrieve(sfdcId)
FlowRetrieve(outcome) ==
    /\ pc = "retrieve"
    /\ Issue("retrieve")
    /\ UNCHANGED <<variant, params, finalConversationId, runId, loop, lastPoll,
                   failStreak>>
    /\ IF outcome.ok
       THEN pc' = "update" /\ UNCHANGED <<response, cause>>
       ELSE Throw("retrieve", outcome.error, outcome.error)

\* processJobAsync: conn.sobject(...).update({...})
FlowUpdate(outcome) ==
    /\ pc = "update"
    /\ Issue("update")
    /\ UNCHANGED <<variant, params, finalConversationId, runId, loop, lastPoll,
                   failStreak>>
    /\ IF outcome.ok
       THEN pc' = "done" /\ UNCHANGED <<response, cause>>
       ELSE Throw("update", outcome.error, outcome.error)

CallOutcomes(bodies) == {Ok(b) : b \in bodies} \cup {Failed(e) : e \in CallErrors}

(***************************************************************************)
(* POST /jobs.  Requests are numbered in arrival order.  Every awaited     *)
(* call is a point where the handlers and background tasks of other        *)
(* requests may run.                                                       *)
(***************************************************************************)
VARIABLES
    handler,    \* which copy of the /jobs handler is deployed: "app", "modular"
    req,        \* per request: its body, its local variables, where it is
    crm,        \* the tracking records, by record id
    acked,      \* requests in the order of their 201 responses
    started     \* requests in the order their orchestration was started

jobVars == <<handler, req, crm, acked, started>>

VARIABLES
    \* ---- the text written to one history field (TextSpec) ----
    content,    \* the assistant content to record
    stored,     \* the value of Conversation_History__c
    previous,   \* its value before the latest update
    escaped,    \* escapeHtml(content), once computed
    appends     \* updates made so far

textVars == <<content, stored, previous, escaped, appends>>

VARIABLES
    \* ---- one extraction (ExtractSpec) ----
    payload,    \* the terminal payload handed to the extraction
    extraction  \* the assistant content, once extracted

extractVars == <<payload, extraction>>

VARIABLES
    \* ---- the three copies of the poll loop, side by side (LoopsSpec) ----
    loops,      \* per copy: its loop state
    polls       \* per copy: the polls it issued

loopsVars == <<loops, polls>>

VARIABLES
    \* ---- one call of collectAllCTAData (CtaSpec) ----
    cta         \* what the CRM answers, and the result once organized

ctaVars == <<cta>>

vars == <<flowVars, jobVars, textVars, extractVars, loopsVars, ctaVars>>

\* No poll loops are compared
LoopsIdle ==
    /\ loops = [v \in Variants |-> LoopInit]
    /\ polls = [v \in Variants |-> 0]

\* No CRM data is collected
CtaIdle ==
    cta = [primaryContactId |-> FALSE, opportunities |-> <<>>, answered |-> FALSE,
           withRole |-> {}, done |-> FALSE,
           relatedOpportunities |-> <<>>, additionalOpportunities |-> <<>>]


\* Requests followed by Spec, under every outcome of every call
NumReqs == 2

Reqs == 1..NumReqs

\* Requests of a burst, followed by BurstSpec while every call succeeds
BurstReqs == 3

Keys == {"k1", "k2"}

Handlers == {"app", "modular"}

\* Ids the CRM and the conversation backend give out: one per creating request
RecordIdOf(r) == "rec" \o ToString(r)

ConvIdOf(r) == "conv" \o ToString(r)

\* The text the backend answers to the run of request r, and its characters
AnswerOf(r) == "&" \o ToString(r)

AnswerChars(r) == <<"&", ToString(r)>>

\* The characters of an assistant content: of an answer, or of the empty string
Chars(text) ==
    IF text = NoId THEN <<>>
    ELSE AnswerChars(CHOOSE r \in DOMAIN req : AnswerOf(r) = text)

NoBody == [sfdcToken |-> FALSE, access_token |-> FALSE, recordId |-> NoId]

\* Request bodies: the valid ones, with and without access_token, and one body
\* for each parameter the handlers require
Bodies ==
    [sfdcToken : {TRUE}, access_token : BOOLEAN, recordId : Keys]
    \cup {[sfdcToken |-> FALSE, access_token |-> TRUE, recordId |-> "k1"],
          [sfdcToken |-> TRUE, access_token |-> TRUE, recordId |-> NoId]}

NoRecord == [exists |-> FALSE, Parent_Record_Id__c |-> NoId,
             Conversation_Id__c |-> NoId, Chat_Done__c |-> FALSE,
             current_conversation__c |-> NoId, Conversation_History__c |-> <<>>,
             \* history, written by no code: the requests whose update went through
             patchedBy |-> <<>>]

ReqInit == [pc |-> "idle", body |-> NoBody,
            sfdcId |-> NoId, existingConversationId |-> NoId, isExisting |-> FALSE,
            conversationIdToUse |-> NoId, loop |-> LoopInit,
            assistantContent |-> NoId, currentHistory |-> <<>>,
            status |-> 0, recordId |-> NoId, responses |-> 0,
            \* history, written by no code
            overlapped |-> FALSE, lookupFailed |-> FALSE, priorAcks |-> {},
            createdRecord |-> FALSE, createCalls |-> 0, orchStarted |-> FALSE,
            submittedTo |-> NoId, ackRecord |-> NoRecord, patched |-> FALSE,
            retrieveCalls |-> 0, updateCalls |-> 0, readAfter |-> <<>>,
            \* the CRM data put into the prompt
            wrapperDataString |-> "{}"]

\* None of the requests rs has arrived and the CRM holds no tracking record
JobsStartState(rs) ==
    /\ handler \in Handlers
    /\ req = [r \in rs |-> ReqInit]
    /\ crm = [id \in {RecordIdOf(r) : r \in rs} |-> NoRecord]
    /\ acked = <<>>
    /\ started = <<>>

\* No conversation flow of FlowSpec runs
FlowIdle ==
    /\ variant = "job"
    /\ params = [access_token |-> FALSE, input |-> FALSE, context |-> FALSE,
                 conversationId |-> NoId]
    /\ pc = "done"
    /\ finalConversationId = NoId
    /\ runId = NoId
    /\ loop = LoopInit
    /\ response = NoResponse
    /\ attempts = [c \in Calls |-> 0]
    /\ lastPoll = NoPoll
    /\ failStreak = 0
    /\ cause = NoCause

\* No /jobs request is served
JobsIdle ==
    /\ handler = "app"
    /\ req = <<>>
    /\ crm = <<>>
    /\ acked = <<>>
    /\ started = <<>>

\* The handler of request r is between its arrival and its HTTP response
InHandler(r) == req[r].pc \in {"connect", "query", "createConv", "setConv",
                               "createRec", "mark"}

\* Request r moves to the local state rq; the two orders are kept
Set(r, rq) ==
    /\ req' = [req EXCEPT ![r] = rq]
    /\ acked' = IF rq.status = 201 /\ req[r].status # 201
                THEN Append(acked, r) ELSE acked
    /\ started' = IF rq.orchStarted /\ ~req[r].orchStarted
                  THEN Append(started, r) ELSE started

\* res.status(code).json(...) followed by return: the request ends, no task is left
Respond(rq, code) ==
    [rq EXCEPT !.pc = "ended", !.status = code, !.responses = @ + 1]

\* processJobAsync / wiseowl.processConversation is called by the background task.
\* The conversation id handed to it is never empty (see Acknowledge), so it
\* creates no conversation and its first request is the PUT.
StartOrchestration(rq) ==
    IF handler = "app" /\ ~rq.body.access_token
    THEN \* if (!access_token) throw
         [rq EXCEPT !.orchStarted = TRUE, !.pc = "bgFailed"]
    ELSE [rq EXCEPT !.orchStarted = TRUE, !.pc = "submit"]

\* res.status(201).json({ recordId: sfdcId }), then the background task runs up
\* to its first await: collectAllCTAData in app.js, conn.identity() in part_001.
\* ackRecord keeps the record as the handler's last write left it.
Acknowledge(rq) ==
    [rq EXCEPT !.status = 201, !.recordId = rq.sfdcId, !.responses = @ + 1,
               !.ackRecord = crm'[rq.sfdcId],
               !.pc = IF handler = "app" THEN "collect" ELSE "bgConnect"]

\* The records a lookup by Parent_Record_Id__c matches
Matching(key) ==
    {id \in DOMAIN crm : crm[id].exists /\ crm[id].Parent_Record_Id__c = key}

\* Faulty variant of JobsReceive: the parameters are not checked on arrival
JobsReceiveUnchecked(r, body) ==
    /\ req[r].pc = "idle"
    /\ \A q \in DOMAIN req : q < r => req[q].pc # "idle"
    /\ UNCHANGED crm
    /\ Set(r, [req[r] EXCEPT !.body = body,
                             !.pc = IF handler = "app" THEN "query" ELSE "connect"])

\* A request arrives: parameter check, then the first awaited call.
JobsReceive(r, body) ==
    /\ req[r].pc = "idle"
    /\ \A q \in DOMAIN req : q < r => req[q].pc # "idle"
    /\ UNCHANGED crm
    /\ LET rq == [req[r] EXCEPT
                    !.body = body,
                    !.overlapped = \E q \in DOMAIN req :
                        InHandler(q) /\ req[q].body.recordId = body.recordId,
                    !.priorAcks = {q \in DOMAIN req : req[q].status = 201
                                       /\ req[q].body.recordId = body.recordId}]
       IN  IF ~body.sfdcToken \/ body.recordId = NoId
           THEN Set(r, Respond(rq, 400))
           ELSE IF handler = "app"
           THEN \* createSalesforceConnection of app.js only builds the object
                Set(r, [rq EXCEPT !.pc = "query"])
           ELSE Set(r, [rq EXCEPT !.pc = "connect"])

\* part_001: salesforce.createSalesforceConnection awaits conn.identity()
JobsConnect(r, ok) ==
    /\ req[r].pc = "connect"
    /\ UNCHANGED crm
    /\ IF ~ok THEN Set(r, Respond(req[r], 500))
       ELSE IF ~req[r].body.access_token THEN Set(r, Respond(req[r], 400))
       ELSE Set(r, [req[r] EXCEPT !.pc = "query"])

\* Faulty variant of AfterQuery: app.js does not take the stored conversation id
AfterQueryIgnoresStored(rq) ==
    IF handler = "app"
    THEN IF ~rq.body.access_token THEN Respond(rq, 400)
         ELSE [rq EXCEPT !.pc = "createConv"]
    ELSE IF rq.sfdcId = NoId THEN [rq EXCEPT !.pc = "createRec"]
         ELSE [rq EXCEPT !.pc = "mark"]

\* After the lookup: what the handler awaits next
AfterQuery(rq) ==
    IF handler = "app"
    THEN IF rq.existingConversationId # NoId
         THEN [rq EXCEPT !.conversationIdToUse = rq.existingConversationId,
                         !.pc = "mark"]
         ELSE IF ~rq.body.access_token THEN Respond(rq, 400)
         ELSE [rq EXCEPT !.pc = "createConv"]
    ELSE \* manageConversationRecord(conn, parentRecordId, null)
         IF rq.sfdcId = NoId THEN [rq EXCEPT !.pc = "createRec"]
         ELSE [rq EXCEPT !.pc = "mark"]

\* Faulty variant of JobsQueryFails: the query error is reported to the HTTP caller
JobsQueryFailsAnswering(r) ==
    /\ req[r].pc = "query"
    /\ UNCHANGED crm
    /\ Set(r, Respond([req[r] EXCEPT !.lookupFailed = TRUE], 500))

\* SELECT ... WHERE Parent_Record_Id__c = key LIMIT 1 fails: logged, nothing found
JobsQueryFails(r) ==
    /\ req[r].pc = "query"
    /\ UNCHANGED crm
    /\ Set(r, AfterQuery([req[r] EXCEPT !.lookupFailed = TRUE]))

\* Faulty variant of JobsQuery: the lookup filters on another field and matches nothing
JobsQueryWrongField(r) ==
    /\ req[r].pc = "query"
    /\ UNCHANGED crm
    /\ Set(r, AfterQuery(req[r]))

\* The lookup answers: no record, or one of the matching records
JobsQuery(r) ==
    /\ req[r].pc = "query"
    /\ UNCHANGED crm
    /\ LET found == Matching(req[r].body.recordId)
       IN  IF found = {}
           THEN Set(r, AfterQuery(req[r]))
           ELSE \E id \in found :
                  Set(r, AfterQuery([req[r] EXCEPT
                         !.sfdcId = id,
                         !.existingConversationId = crm[id].Conversation_Id__c,
                         !.isExisting = TRUE]))

\* POST /conversations from the handler answers with `id` (NoId: a body without
\* an id), or fails.  Either handler answers 500 when it has no id.
JobsCreateConversation(r, outcome) ==
    /\ req[r].pc = "createConv"
    /\ UNCHANGED crm
    /\ LET rq == [req[r] EXCEPT !.createCalls = @ + 1]
       IN  IF ~outcome.ok \/ outcome.data.id = NoId
           THEN Set(r, Respond(rq, 500))
           ELSE LET got == [rq EXCEPT !.conversationIdToUse = ConvIdOf(r)]
                IN  IF got.sfdcId # NoId
                    THEN Set(r, [got EXCEPT !.pc = "setConv"])
                    ELSE \* app.js only: no record yet, it is created next
                         Set(r, [got EXCEPT !.pc = "createRec"])

\* update({ Id: sfdcId, Conversation_Id__c: conversationIdToUse }); a failure is
\* logged only.
JobsSetConversationId(r, ok) ==
    /\ req[r].pc = "setConv"
    /\ crm' = IF ok
              THEN [crm EXCEPT ![req[r].sfdcId].Conversation_Id__c =
                                   req[r].conversationIdToUse]
              ELSE crm
    /\ IF handler = "app"
       THEN Set(r, [req[r] EXCEPT !.pc = "mark"])
       ELSE Set(r, Acknowledge(req[r]))

\* Faulty variant of JobsCreateRecord: a rejected creation is logged and the handler goes on
JobsCreateRecordLenient(r, ok) ==
    /\ req[r].pc = "createRec"
    /\ IF ok
       THEN /\ crm' = [crm EXCEPT ![RecordIdOf(r)] =
                        [NoRecord EXCEPT
                           !.exists = TRUE,
                           !.Parent_Record_Id__c = req[r].body.recordId,
                           !.Conversation_Id__c = req[r].conversationIdToUse]]
            /\ Set(r, [req[r] EXCEPT !.sfdcId = RecordIdOf(r),
                                     !.createdRecord = TRUE, !.pc = "mark"])
       ELSE /\ UNCHANGED crm
            /\ Set(r, [req[r] EXCEPT !.sfdcId = RecordIdOf(r), !.pc = "mark"])

\* Faulty variant of JobsCreateRecord: the record is created without the conversation id
JobsCreateRecordNoConversation(r, ok) ==
    /\ req[r].pc = "createRec"
    /\ IF ok
       THEN /\ crm' = [crm EXCEPT ![RecordIdOf(r)] =
                        [NoRecord EXCEPT
                           !.exists = TRUE,
                           !.Parent_Record_Id__c = req[r].body.recordId]]
            /\ Set(r, [req[r] EXCEPT !.sfdcId = RecordIdOf(r),
                                     !.createdRecord = TRUE, !.pc = "mark"])
       ELSE /\ UNCHANGED crm
            /\ Set(r, Respond(req[r], 500))

\* create({ Conversation_Id__c, Parent_Record_Id__c, Chat_Done__c: false })
JobsCreateRecord(r, ok) ==
    /\ req[r].pc = "createRec"
    /\ IF ok
       THEN /\ crm' = [crm EXCEPT ![RecordIdOf(r)] =
                        [NoRecord EXCEPT
                           !.exists = TRUE,
                           !.Parent_Record_Id__c = req[r].body.recordId,
                           !.Conversation_Id__c = req[r].conversationIdToUse]]
            /\ Set(r, [req[r] EXCEPT !.sfdcId = RecordIdOf(r),
                                     !.createdRecord = TRUE, !.pc = "mark"])
       ELSE /\ UNCHANGED crm
            /\ Set(r, Respond(req[r], 500))

\* Faulty variant of JobsMarkProcessing: a failed update is reported to the HTTP caller
JobsMarkProcessingFatal(r, ok) ==
    /\ req[r].pc = "mark"
    /\ crm' = IF ok
              THEN [crm EXCEPT ![req[r].sfdcId].Chat_Done__c = FALSE,
                               ![req[r].sfdcId].current_conversation__c = NoId]
              ELSE crm
    /\ IF ~ok THEN Set(r, Respond(req[r], 500))
       ELSE IF handler = "app"
       THEN Set(r, Acknowledge(req[r]))
       ELSE IF req[r].existingConversationId # NoId
            THEN Set(r, Acknowledge([req[r] EXCEPT !.conversationIdToUse =
                                                    req[r].existingConversationId]))
            ELSE Set(r, [req[r] EXCEPT !.pc = "createConv"])

\* update({ Id: sfdcId, Chat_Done__c: false, current_conversation__c: '' }); a
\* failure is logged only.
JobsMarkProcessing(r, ok) ==
    /\ req[r].pc = "mark"
    /\ crm' = IF ok
              THEN [crm EXCEPT ![req[r].sfdcId].Chat_Done__c = FALSE,
                               ![req[r].sfdcId].current_conversation__c = NoId]
              ELSE crm
    /\ IF handler = "app"
       THEN Set(r, Acknowledge(req[r]))
       ELSE \* manageConversationRecord returns; part_001 goes on
            IF req[r].existingConversationId # NoId
            THEN Set(r, Acknowledge([req[r] EXCEPT !.conversationIdToUse =
                                                    req[r].existingConversationId]))
            ELSE Set(r, [req[r] EXCEPT !.pc = "createConv"])

\* part_001 processInBackground: createSalesforceConnection awaits conn.identity()
JobsBgConnect(r, ok) ==
    /\ req[r].pc = "bgConnect"
    /\ UNCHANGED crm
    /\ IF ~ok THEN Set(r, [req[r] EXCEPT !.pc = "bgFailed"])
       ELSE IF ~req[r].isExisting THEN Set(r, [req[r] EXCEPT !.pc = "collect"])
       ELSE Set(r, StartOrchestration(req[r]))

\* Faulty variant of JobsCollect: a rejection ends the background task
JobsCollectFatal(r, ok) ==
    /\ req[r].pc = "collect"
    /\ UNCHANGED crm
    /\ IF ok
       THEN Set(r, StartOrchestration([req[r] EXCEPT !.wrapperDataString = "data"]))
       ELSE Set(r, [req[r] EXCEPT !.pc = "bgFailed"])

\* collectAllCTAData resolves or rejects; a rejection is logged and the task goes
\* on with empty data: ctaData = {} in app.js, wrapperDataString = "{}" in part_001.
JobsCollect(r, ok) ==
    /\ req[r].pc = "collect"
    /\ UNCHANGED crm
    /\ Set(r, StartOrchestration([req[r] EXCEPT
                 !.wrapperDataString = IF ok THEN "data" ELSE "{}"]))

\* Faulty variant of JobsSubmitInput: a failed PUT is reported to the HTTP caller
JobsSubmitInputAnswering(r, outcome) ==
    /\ req[r].pc = "submit"
    /\ UNCHANGED crm
    /\ LET rq == [req[r] EXCEPT !.submittedTo = req[r].conversationIdToUse]
       IN  IF ~outcome.ok \/ outcome.data.runId = NoId
           THEN Set(r, [Respond(rq, 500) EXCEPT !.pc = "bgFailed"])
           ELSE Set(r, [rq EXCEPT !.pc = "poll"])

\* PUT /conversations/{id} answers with a runId, without one, or fails.
JobsSubmitInput(r, outcome) ==
    /\ req[r].pc = "submit"
    /\ UNCHANGED crm
    /\ LET rq == [req[r] EXCEPT !.submittedTo = req[r].conversationIdToUse]
       IN  IF ~outcome.ok \/ outcome.data.runId = NoId
           THEN Set(r, [rq EXCEPT !.pc = "bgFailed"])
           ELSE Set(r, [rq EXCEPT !.pc = "poll"])

\* Run results the backend hands to a background task: a text, or nothing
\* (the terminal pair has no second member)
JobPollOutcomes(r) ==
    {Ok(Arr(<<>>)),
     Ok(Arr(<<Arr(<<Str("done"), Str(AnswerOf(r))>>)>>)),
     Ok(Arr(<<Arr(<<Str("done")>>)>>)),
     Failed(HttpError(404))}

\* The assistant content of a result that is a string, or absent:
\* typeof chatDoneResult === 'string' ? chatDoneResult : (chatDoneResult || '')
TextOf(chatDoneResult) ==
    IF chatDoneResult.t = "string" THEN chatDoneResult.s ELSE NoId

\* One iteration of the background task's poll loop.  When the loop ends with a
\* result the task goes on to patch the record: app.js always, part_001's
\* updateConversationRecord only when the content is not empty.
JobsPoll(r, outcome) ==
    /\ req[r].pc = "poll"
    /\ LoopRunning(req[r].loop)
    /\ UNCHANGED crm
    /\ LET l  == IF handler = "app" THEN PollStepJob(req[r].loop, outcome)
                 ELSE PollStepConv(req[r].loop, outcome)
           rq == [req[r] EXCEPT !.loop = l]
       IN  IF l.thrown # NoError THEN Set(r, [rq EXCEPT !.pc = "bgFailed"])
           ELSE IF ~l.isDone THEN Set(r, rq)
           ELSE LET got == [rq EXCEPT !.assistantContent = TextOf(l.chatDone)]
                IN  IF handler = "modular" /\ got.assistantContent = NoId
                    THEN Set(r, [got EXCEPT !.pc = "bgDone"])
                    ELSE Set(r, [got EXCEPT !.pc = "retrieve"])

\* Faulty variant of JobsRetrieve: a failed read is recorded in the tracking record
JobsRetrieveRecordsFailure(r, ok) ==
    /\ req[r].pc = "retrieve"
    /\ IF ok
       THEN /\ UNCHANGED crm
            /\ Set(r, [req[r] EXCEPT
                         !.retrieveCalls = @ + 1,
                         !.currentHistory = crm[req[r].sfdcId].Conversation_History__c,
                      !.readAfter = crm[req[r].sfdcId].patchedBy,
                         !.pc = "patch"])
       ELSE /\ crm' = [crm EXCEPT ![req[r].sfdcId].Chat_Done__c = TRUE,
                                  ![req[r].sfdcId].current_conversation__c = "failed"]
            /\ Set(r, [req[r] EXCEPT !.retrieveCalls = @ + 1,
                                       !.pc = IF handler = "app" THEN "bgFailed"
                                              ELSE "bgDone"])

\* Faulty variant of JobsRetrieve: after a failed read the task polls the run again
JobsRetrieveRepolls(r, ok) ==
    /\ req[r].pc = "retrieve"
    /\ UNCHANGED crm
    /\ IF ok
       THEN Set(r, [req[r] EXCEPT
                      !.retrieveCalls = @ + 1,
                      !.currentHistory = crm[req[r].sfdcId].Conversation_History__c,
                      !.readAfter = crm[req[r].sfdcId].patchedBy,
                      !.pc = "patch"])
       ELSE Set(r, [req[r] EXCEPT !.loop = LoopInit, !.pc = "poll"])

\* retrieve(sfdcId): the task reads Conversation_History__c.  A failure ends the
\* task: thrown in app.js, caught and logged in updateConversationRecord.
JobsRetrieve(r, ok) ==
    /\ req[r].pc = "retrieve"
    /\ UNCHANGED crm
    /\ IF ok
       THEN Set(r, [req[r] EXCEPT
                      !.retrieveCalls = @ + 1,
                      !.currentHistory = crm[req[r].sfdcId].Conversation_History__c,
                      !.readAfter = crm[req[r].sfdcId].patchedBy,
                      !.pc = "patch"])
       ELSE Set(r, [req[r] EXCEPT !.retrieveCalls = @ + 1,
                                  !.pc = IF handler = "app" THEN "bgFailed"
                                         ELSE "bgDone"])

\* Faulty variant of JobsPatch: a failed update is followed by a second read and update
JobsPatchRetrying(r, ok) ==
    /\ req[r].pc = "patch"
    /\ crm' = IF ok
              THEN [crm EXCEPT
                      ![req[r].sfdcId].Conversation_History__c =
                          NewHistory(req[r].currentHistory,
                                     Chars(req[r].assistantContent)),
                      ![req[r].sfdcId].patchedBy = Append(@, r),
                      ![req[r].sfdcId].Chat_Done__c = TRUE,
                      ![req[r].sfdcId].current_conversation__c =
                          req[r].assistantContent]
              ELSE crm
    /\ Set(r, [req[r] EXCEPT !.patched = ok,
                             !.updateCalls = @ + 1,
                             !.pc = IF ok THEN "bgDone"
                                    ELSE IF req[r].updateCalls = 0 THEN "retrieve"
                                    ELSE "bgFailed"])

\* Faulty variant of JobsPatch: the history is replaced by the new entry alone
JobsPatchOverwrites(r, ok) ==
    /\ req[r].pc = "patch"
    /\ crm' = IF ok
              THEN [crm EXCEPT
                      ![req[r].sfdcId].Conversation_History__c =
                          NewHistory(<<>>, Chars(req[r].assistantContent)),
                      ![req[r].sfdcId].patchedBy = Append(@, r),
                      ![req[r].sfdcId].Chat_Done__c = TRUE,
                      ![req[r].sfdcId].current_conversation__c =
                          req[r].assistantContent]
              ELSE crm
    /\ Set(r, [req[r] EXCEPT !.patched = ok,
                             !.updateCalls = @ + 1,
                             !.pc = IF ok \/ handler = "modular" THEN "bgDone"
                                    ELSE "bgFailed"])

\* Faulty variant of JobsPatch: the update appends to the history stored at the time
\* of the write, as under a lock on the record
JobsPatchLocked(r, ok) ==
    /\ req[r].pc = "patch"
    /\ crm' = IF ok
              THEN [crm EXCEPT
                      ![req[r].sfdcId].Conversation_History__c =
                          NewHistory(@, Chars(req[r].assistantContent)),
                      ![req[r].sfdcId].patchedBy = Append(@, r),
                      ![req[r].sfdcId].Chat_Done__c = TRUE,
                      ![req[r].sfdcId].current_conversation__c =
                          req[r].assistantContent]
              ELSE crm
    /\ Set(r, [req[r] EXCEPT !.patched = ok,
                             !.updateCalls = @ + 1,
                             !.pc = IF ok \/ handler = "modular" THEN "bgDone"
                                    ELSE "bgFailed"])

\* Faulty variant of JobsPatch: the flag and the latest response are written, the history is not
JobsPatchFlagFirst(r, ok) ==
    /\ req[r].pc = "patch"
    /\ crm' = IF ok
              THEN [crm EXCEPT
                      ![req[r].sfdcId].patchedBy = Append(@, r),
                      ![req[r].sfdcId].Chat_Done__c = TRUE,
                      ![req[r].sfdcId].current_conversation__c =
                          req[r].assistantContent]
              ELSE crm
    /\ Set(r, [req[r] EXCEPT !.patched = ok,
                             !.updateCalls = @ + 1,
                             !.pc = IF ok \/ handler = "modular" THEN "bgDone"
                                    ELSE "bgFailed"])

\* update({ Id, Conversation_History__c: newHistory, Chat_Done__c: true,
\*          current_conversation__c: assistantContent })
JobsPatch(r, ok) ==
    /\ req[r].pc = "patch"
    /\ crm' = IF ok
              THEN [crm EXCEPT
                      ![req[r].sfdcId].Conversation_History__c =
                          NewHistory(req[r].currentHistory,
                                     Chars(req[r].assistantContent)),
                      ![req[r].sfdcId].patchedBy = Append(@, r),
                      ![req[r].sfdcId].Chat_Done__c = TRUE,
                      ![req[r].sfdcId].current_conversation__c =
                          req[r].assistantContent]
              ELSE crm
    /\ Set(r, [req[r] EXCEPT !.patched = ok,
                             !.updateCalls = @ + 1,
                             !.pc = IF ok \/ handler = "modular" THEN "bgDone"
                                    ELSE "bgFailed"])

(***************************************************************************)
(* The two specifications.                                                 *)
(***************************************************************************)
\* What POST /conversations may answer a /jobs handler: a body with an id (the
\* backend's next id, ConvIdOf) or without one
JobCreateBodies == {[id |-> "id"], [id |-> NoId]}

\* No text is being written
TextIdle ==
    /\ content = <<>>
    /\ stored = <<>>
    /\ previous = <<>>
    /\ escaped = [done |-> FALSE, value |-> <<>>]
    /\ appends = 0

\* No extraction runs
ExtractIdle ==
    /\ payload = NullPayload
    /\ extraction = [done |-> FALSE, value |-> TextContent("")]

Init == JobsStartState(Reqs) /\ FlowIdle /\ TextIdle /\ ExtractIdle /\ LoopsIdle /\ CtaIdle

JobsNext(r) ==
    \/ \E body \in Bodies : JobsReceive(r, body)
    \/ \E ok \in BOOLEAN : JobsConnect(r, ok)
    \/ JobsQueryFails(r)
    \/ JobsQuery(r)
    \/ \E o \in CallOutcomes(JobCreateBodies) : JobsCreateConversation(r, o)
    \/ \E ok \in BOOLEAN : JobsSetConversationId(r, ok)
    \/ \E ok \in BOOLEAN : JobsCreateRecord(r, ok)
    \/ \E ok \in BOOLEAN : JobsMarkProcessing(r, ok)
    \/ \E ok \in BOOLEAN : JobsBgConnect(r, ok)
    \/ \E ok \in BOOLEAN : JobsCollect(r, ok)
    \/ \E o \in CallOutcomes(SubmitBodies) : JobsSubmitInput(r, o)
    \/ \E o \in JobPollOutcomes(r) : JobsPoll(r, o)
    \/ \E ok \in BOOLEAN : JobsRetrieve(r, ok)
    \/ \E ok \in BOOLEAN : JobsPatch(r, ok)

Next == \E r \in Reqs : JobsNext(r) /\ UNCHANGED <<flowVars, textVars, extractVars, loopsVars, ctaVars, handler>>

Spec == Init /\ [][Next]_vars

\* The orchestration of request r is running: started and not yet ended
Running(r) == req[r].pc \in {"submit", "poll", "retrieve", "patch"}

\* The number of orchestrations the specification's queue lets run at once, as
\* configured in the example of the claim (no code of the repository has a limit)
ConcurrencyLimit == 2

\* A burst: BurstReqs valid requests for one parent record, and no call fails
BurstInit == JobsStartState(1..BurstReqs) /\ FlowIdle /\ TextIdle /\ ExtractIdle /\ LoopsIdle /\ CtaIdle

BurstStep(r) ==
    \/ JobsReceive(r, [sfdcToken |-> TRUE, access_token |-> TRUE, recordId |-> "k1"])
    \/ JobsConnect(r, TRUE)
    \/ JobsQuery(r)
    \/ JobsCreateConversation(r, Ok([id |-> "id"]))
    \/ JobsSetConversationId(r, TRUE)
    \/ JobsCreateRecord(r, TRUE)
    \/ JobsMarkProcessing(r, TRUE)
    \/ JobsBgConnect(r, TRUE)
    \/ JobsCollect(r, TRUE)
    \/ JobsSubmitInput(r, Ok([runId |-> "r1"]))
    \/ \E o \in {Ok(Arr(<<>>)), Ok(Arr(<<Arr(<<Str("done"), Str(AnswerOf(r))>>)>>))} :
          JobsPoll(r, o)
    \/ JobsRetrieve(r, TRUE)
    \/ JobsPatch(r, TRUE)

BurstNext ==
    \E r \in 1..BurstReqs : BurstStep(r) /\ UNCHANGED <<flowVars, textVars, extractVars, loopsVars, ctaVars, handler>>

BurstSpec == BurstInit /\ [][BurstNext]_vars

FlowInit == FlowStartState /\ JobsIdle /\ TextIdle /\ ExtractIdle /\ LoopsIdle /\ CtaIdle

FlowNext ==
    \/ FlowStart /\ UNCHANGED <<jobVars, textVars, extractVars, loopsVars, ctaVars>>
    \/ \E o \in CallOutcomes(CreateBodies) : FlowCreateConversation(o) /\ UNCHANGED <<jobVars, textVars, extractVars, loopsVars, ctaVars>>
    \/ \E o \in CallOutcomes(SubmitBodies) : FlowSubmitInput(o) /\ UNCHANGED <<jobVars, textVars, extractVars, loopsVars, ctaVars>>
    \/ \E o \in PollOutcomes : FlowPoll(o) /\ UNCHANGED <<jobVars, textVars, extractVars, loopsVars, ctaVars>>
    \/ \E o \in CallOutcomes({Null}) : FlowRetrieve(o) /\ UNCHANGED <<jobVars, textVars, extractVars, loopsVars, ctaVars>>
    \/ \E o \in CallOutcomes({Null}) : FlowUpdate(o) /\ UNCHANGED <<jobVars, textVars, extractVars, loopsVars, ctaVars>>

FlowSpec == FlowInit /\ [][FlowNext]_vars

(***************************************************************************)
(* The history field under successive updates (TextSpec): any content, any *)
(* current history, then escapeHtml and the computation of the new history *)
(* as updateConversationRecord and processJobAsync do them.                *)
(***************************************************************************)
\* Longest content
MaxTextLen == 2

\* Most pieces a current history is made of
MaxFragments == 3

\* Most updates of one history field
MaxAppends == 2

TextAlphabet == Reserved \cup {"a", " "}

Contents == UNION {[1..n -> TextAlphabet] : n \in 0..MaxTextLen}

\* Pieces of a stored history: the list tags, an entry, white space, a cut tag
Fragments == {UlOpen, UlClose, LiOpen \o <<"a">> \o LiClose, <<" ">>,
              <<"<", "/", "u">>}

RECURSIVE Flatten(_)
Flatten(pieces) ==
    IF pieces = <<>> THEN <<>> ELSE Head(pieces) \o Flatten(Tail(pieces))

Histories == {Flatten(ps) : ps \in UNION {[1..n -> Fragments] : n \in 0..MaxFragments}}

\* Any content is about to be written to a field holding any history
TextStartState ==
    /\ content \in Contents
    /\ stored \in Histories
    /\ previous = stored
    /\ escaped = [done |-> FALSE, value |-> <<>>]
    /\ appends = 0

\* escapeHtml(assistantContent)
TextEscape ==
    /\ ~escaped.done
    /\ escaped' = [done |-> TRUE, value |-> escapeHtml(content)]
    /\ UNCHANGED <<content, stored, previous, appends>>

\* One update of the field: read currentHistory, write newHistory
TextAppend ==
    /\ appends < MaxAppends
    /\ previous' = stored
    /\ stored' = NewHistory(stored, content)
    /\ appends' = appends + 1
    /\ UNCHANGED <<content, escaped>>

TextNext ==
    \/ TextEscape /\ UNCHANGED <<flowVars, jobVars, extractVars, loopsVars, ctaVars>>
    \/ TextAppend /\ UNCHANGED <<flowVars, jobVars, extractVars, loopsVars, ctaVars>>

TextInit == TextStartState /\ FlowIdle /\ JobsIdle /\ ExtractIdle /\ LoopsIdle /\ CtaIdle

TextSpec == TextInit /\ [][TextNext]_vars

(***************************************************************************)
(* One extraction (ExtractSpec): any terminal payload, then the extraction *)
(* of processJobAsync and processConversation.                             *)
(***************************************************************************)
\* Most parts of an entry
MaxParts == 2

\* Most entries of a sequence payload
MaxEntries == 2

Roles == {"", "Assistant", "user"}

PartTypes == {"", "Markdown", "text"}

\* The shape of a part: its type, and whether it carries content
PartShapes == [type : PartTypes, filled : BOOLEAN]

\* The shape of an entry: null, or its role, its parts when it has an array
\* of parts, and whether it carries a content of its own
EntryShapes ==
    {[nil |-> TRUE, role |-> "", hasParts |-> FALSE, parts |-> <<>>,
      filled |-> FALSE]}
    \cup [nil : {FALSE}, role : Roles, hasParts : {FALSE}, parts : {<<>>},
          filled : BOOLEAN]
    \cup [nil : {FALSE}, role : Roles, hasParts : {TRUE},
          parts : UNION {[1..n -> PartShapes] : n \in 0..MaxParts},
          filled : BOOLEAN]

\* Entry j of a payload: every content it carries is a text of its own
EntryOfShape(j, shape) ==
    [nil |-> shape.nil, role |-> shape.role, hasParts |-> shape.hasParts,
     parts |-> [i \in 1..Len(shape.parts) |->
                  [type |-> shape.parts[i].type,
                   content |-> IF shape.parts[i].filled
                               THEN "e" \o ToString(j) \o "p" \o ToString(i)
                               ELSE ""]],
     content |-> IF shape.filled THEN "e" \o ToString(j) ELSE ""]

TerminalPayloads ==
    {ArrayPayload([j \in 1..Len(shapes) |-> EntryOfShape(j, shapes[j])]) :
        shapes \in UNION {[1..n -> EntryShapes] : n \in 0..MaxEntries}}
    \cup {StringPayload("answer"), StringPayload(""), ObjectPayload, NullPayload,
          UndefinedPayload}

ExtractStartState ==
    /\ payload \in TerminalPayloads
    /\ extraction = [done |-> FALSE, value |-> TextContent("")]

ExtractInit == ExtractStartState /\ FlowIdle /\ JobsIdle /\ TextIdle /\ LoopsIdle /\ CtaIdle

\* The extraction runs on the payload
Extract ==
    /\ ~extraction.done
    /\ extraction' = [done |-> TRUE, value |-> ExtractContent(payload)]
    /\ UNCHANGED <<payload, flowVars, jobVars, textVars, loopsVars, ctaVars>>

ExtractNext == Extract

ExtractSpec == ExtractInit /\ [][ExtractNext]_vars

(***************************************************************************)
(* Properties of the poll loop (FlowSpec).                                 *)
(***************************************************************************)
\* The step is one poll: one more GET of the run was issued
PollTaken == attempts'["poll"] = attempts["poll"] + 1

\* The flow left its poll loop with an error: the promise is rejected, or POST /
\* answered with an error status
Aborted ==
    /\ cause.call = "poll"
    /\ ~loop.isDone
    /\ IF variant = "sync" THEN pc = "responded" /\ response.status >= 400
       ELSE pc = "failed"

\* A response of the shape [["done", X], ...]
DoneShape(d) ==
    /\ d.t = "array"
    /\ d.items # <<>>
    /\ d.items[1].t = "array"
    /\ Len(d.items[1].items) = 2
    /\ d.items[1].items[1] = Str("done")

\* A failed poll the loop tolerates: not a client error, fewer than 5 in a row
Tolerated(outcome, streak) ==
    /\ ~outcome.ok
    /\ ~(outcome.error.hasResponse /\ outcome.error.status \in 400..499)
    /\ streak < 5

\* C3: the poll loop stops at exactly the first poll that answers
\* [["done", X], ...]: that poll ends the loop with result X (handed to the HTTP
\* response, to the record patch, or returned), every poll before it answered
\* something else or failed tolerably, and once the loop is left no poll is issued.
C3_StopsAtFirstDone ==
    [][/\ pc # "poll" => attempts'["poll"] = attempts["poll"]
       /\ PollTaken =>
            /\ attempts["poll"] > 0 =>
                 \/ lastPoll.ok /\ ~DoneShape(lastPoll.data)
                 \/ Tolerated(lastPoll, failStreak)
            /\ lastPoll'.ok /\ DoneShape(lastPoll'.data) =>
                 /\ loop'.isDone
                 /\ loop'.chatDone = lastPoll'.data.items[1].items[2]
                 /\ pc' = CASE variant = "sync" -> "responded"
                            [] variant = "job" -> "retrieve"
                            [] variant = "conv" -> "done"
                 /\ variant = "sync" =>
                      response'.status = 200 /\ response'.chatDone = loop'.chatDone]_vars

\* C3 witness: a loop that ended on a [["done", X]] answer after earlier polls
C3_Witness ==
    /\ attempts["poll"] >= 3
    /\ lastPoll.ok /\ DoneShape(lastPoll.data)
    /\ loop.isDone /\ loop.chatDone = Str("answer")
    /\ pc \in {"responded", "retrieve", "done"}

\* C4: five failed polls in a row abort the loop with an error, fewer tolerable
\* ones do not, and no poll is issued after five consecutive failures.
C4_AbortsOnFifthFailure ==
    /\ [](/\ failStreak <= 5
          /\ failStreak = 5 => Aborted
          /\ failStreak \in 1..4 /\ Tolerated(lastPoll, failStreak) =>
                pc = "poll" /\ cause.call = "none")
    /\ [][failStreak = 5 => ~PollTaken]_vars

\* C4 witness: five failures, none a client error, ended the flow
C4_Witness ==
    /\ failStreak = 5
    /\ attempts["poll"] > 5
    /\ Aborted
    /\ cause.error.thrownByCall
    /\ ~(cause.error.hasResponse /\ cause.error.status \in 400..499)

\* C5: a poll that fails with a status in [400,500) aborts the loop at once,
\* whatever the number of failures before it, the very first poll included.
C5_ClientErrorAborts ==
    /\ [](~lastPoll.ok /\ lastPoll.error.hasResponse
            /\ lastPoll.error.status \in 400..499
          => Aborted /\ cause.error = lastPoll.error)
    /\ [][PollTaken => ~(~lastPoll.ok /\ lastPoll.error.hasResponse
                          /\ lastPoll.error.status \in 400..499)]_vars

\* C5 witness: the first poll failed with a client error and the flow is over
C5_Witness ==
    /\ attempts["poll"] = 1
    /\ ~lastPoll.ok /\ lastPoll.error.status = 400
    /\ Aborted

\* A response whose first element is a non-empty sequence starting with "done"
FirstMemberDone(d) ==
    /\ d.t = "array"
    /\ d.items # <<>>
    /\ d.items[1].t = "array"
    /\ d.items[1].items # <<>>
    /\ d.items[1].items[1] = Str("done")

\* C6 as stated: a poll response is terminal only when its first element is an
\* ordered pair whose first member is "done"; every other shape is Pending.
C6_OnlyPairsTerminal ==
    attempts["poll"] > 0 /\ lastPoll.ok =>
        (loop.isDone <=> DoneShape(lastPoll.data))

\* C6 as amended: a poll response is terminal exactly when it is a non-empty
\* sequence whose first element is a non-empty sequence whose first member is
\* "done", of any length; the result is that element's second member, absent when
\* it has none; every other shape is Pending and the loop goes on.
C6_TerminalShape ==
    attempts["poll"] > 0 /\ lastPoll.ok =>
        /\ loop.isDone <=> FirstMemberDone(lastPoll.data)
        /\ loop.isDone =>
             loop.chatDone = IF Len(lastPoll.data.items[1].items) >= 2
                             THEN lastPoll.data.items[1].items[2] ELSE Undefined
        /\ ~loop.isDone => pc = "poll" /\ loop.consecutiveErrors = 0

\* C6 witness: the one-member answer [["done"]] ended the loop, with no result
C6_Witness ==
    /\ lastPoll = Ok(Arr(<<Arr(<<Str("done")>>)>>))
    /\ loop.isDone
    /\ loop.chatDone = Undefined
    /\ pc # "poll"

(***************************************************************************)
(* Properties of the single outbound calls (FlowSpec).                     *)
(***************************************************************************)
\* A failure the retry policy of the specification retries: no response, or 5xx
Retryable(error) ==
    /\ error.thrownByCall
    /\ ~error.hasResponse \/ error.status \in 500..599

\* The error reached the caller: an error response of POST /, a rejected promise
Surfaced ==
    IF variant = "sync" THEN pc = "responded" /\ response.status >= 400
    ELSE pc = "failed"

\* C9 as stated: a create-conversation, submit-input or CRM-write call that fails
\* with a network error or a 5xx status is retried, and reported as failed only
\* after RetryBound additional attempts.
C9_RetriedBeforeFailing ==
    cause.call \in {"create", "submit", "update"} /\ Retryable(cause.error) =>
        attempts[cause.call] = RetryBound + 1

\* C10: a single outbound call that fails with a status in [400,500) is issued
\* once and its failure reaches the caller; no call outside the poll loop is
\* issued more than RetryBound + 1 times, and none is issued after a failure.
C10_ClientErrorNotRetried ==
    /\ [](/\ \A c \in {"create", "submit", "retrieve", "update"} :
               attempts[c] <= RetryBound + 1
          /\ /\ cause.call \in {"create", "submit", "retrieve", "update"}
             /\ cause.error.hasResponse
             /\ cause.error.status \in 400..499
             => attempts[cause.call] = 1 /\ Surfaced)
    /\ [][cause.call # "none" => attempts' = attempts]_vars

\* C10 witness: the PUT failed with 404 and the flow ended after that one attempt
C10_Witness ==
    /\ cause = [call |-> "submit", error |-> HttpError(404)]
    /\ attempts["submit"] = 1
    /\ Surfaced

(***************************************************************************)
(* Properties of POST /jobs (Spec, BurstSpec).                             *)
(***************************************************************************)
\* The requests for key k so far came one after the other (none arrived while
\* another was still in its handler) and none of their lookups failed
KeyClean(k) ==
    \A r \in DOMAIN req :
        req[r].body.recordId = k => ~req[r].overlapped /\ ~req[r].lookupFailed

\* C1 as stated: under any interleaving of requests, failing lookups included,
\* the CRM holds at most one tracking record per parentRecordId.
C1_AtMostOneRecordPerKey ==
    \A k \in Keys : Cardinality(Matching(k)) <= 1

\* C1 as amended: the CRM holds at most one tracking record for a parentRecordId
\* whose requests did not overlap and whose lookups all succeeded.
C1_OneRecordWhenSequential ==
    \A k \in Keys : KeyClean(k) => Cardinality(Matching(k)) <= 1

\* C1 witness: two acknowledged requests for one key, one after the other, and
\* one record
C1_Witness ==
    \E k \in Keys :
        /\ KeyClean(k)
        /\ Cardinality({r \in DOMAIN req :
                          req[r].status = 201 /\ req[r].body.recordId = k}) >= 2
        /\ Cardinality(Matching(k)) = 1

\* What C2 asks of a request r acknowledged after the acknowledgement of an
\* earlier request for the same parentRecordId
Reuses(r) ==
    /\ ~req[r].createdRecord
    /\ \A q \in req[r].priorAcks : req[q].recordId = req[r].recordId
    /\ req[r].existingConversationId # NoId =>
         /\ req[r].createCalls = 0
         /\ req[r].submittedTo \in {NoId, req[r].existingConversationId}

\* C2 as stated: the second of two requests with the same parentRecordId, issued
\* after the first was acknowledged, creates no record, returns the first's
\* recordId, and continues the stored conversation without creating one.
C2_SecondRequestReuses ==
    \A r \in DOMAIN req :
        req[r].status = 201 /\ req[r].priorAcks # {} => Reuses(r)

\* C2 as amended: the same, provided no lookup for that parentRecordId failed
\* and no requests for it overlapped.
C2_SecondReusesWhenLookupSucceeds ==
    \A r \in DOMAIN req :
        /\ req[r].status = 201
        /\ req[r].priorAcks # {}
        /\ KeyClean(req[r].body.recordId)
        => Reuses(r)

\* C2 witness: a second request found the record and its conversation, was
\* acknowledged with the same record, and submitted to that conversation
C2_Witness ==
    \E r \in DOMAIN req :
        /\ req[r].status = 201
        /\ req[r].priorAcks # {}
        /\ KeyClean(req[r].body.recordId)
        /\ req[r].existingConversationId # NoId
        /\ req[r].submittedTo = req[r].existingConversationId
        /\ \E q \in req[r].priorAcks : req[q].recordId = req[r].recordId

\* C7 as stated: never more than ConcurrencyLimit orchestrations run at once.
C7_ConcurrencyBounded ==
    Cardinality({r \in DOMAIN req : Running(r)}) <= ConcurrencyLimit

\* C8 as stated: orchestrations are started in the order the jobs were
\* submitted (acknowledged and handed to the background).
C8_FifoAdmission ==
    \A n \in 1..Len(started) : started[n] = acked[n]

(***************************************************************************)
(* Properties of the response of POST / (FlowSpec, variant "sync").        *)
(***************************************************************************)
\* C11 as stated: a POST / request carrying access_token, input and context is
\* answered either with an error status or with a success whose conversationId
\* is not null/undefined and whose chatDone holds the terminal payload.
C11_SuccessIsComplete ==
    /\ variant = "sync"
    /\ params.access_token /\ params.input /\ params.context
    /\ pc = "responded"
    => \/ response.status >= 400 /\ ~response.success
       \/ /\ response.success
          /\ response.conversationId # NoId
          /\ response.chatDone \notin {Null, Undefined}

\* C12 as stated: when create, submit or poll answered with an HTTP error
\* status and that error ended POST /, the response carries that status; the
\* status is 500 only when the error has no upstream status.
C12_UpstreamStatusSurfaced ==
    /\ variant = "sync"
    /\ pc = "responded"
    /\ cause.call \in {"create", "submit", "poll"}
    /\ cause.error.thrownByCall
    => response.status = IF cause.error.hasResponse THEN cause.error.status
                         ELSE 500

(***************************************************************************)
(* Properties of the background task of POST /jobs (Spec).                 *)
(***************************************************************************)
\* C13: a POST /jobs request whose handler is over got exactly one HTTP
\* response and none gets more; the submit-input call of the orchestration is
\* issued only after the 201 acknowledgement; and once a response is sent no
\* step, a failing background step included, sends another one or changes its
\* status or recordId.
C13_OneResponseAckFirst ==
    /\ [](\A r \in DOMAIN req :
            /\ req[r].responses <= 1
            /\ req[r].responses = 1 <=> req[r].status # 0
            /\ req[r].pc # "idle" /\ ~InHandler(r) => req[r].responses = 1)
    /\ [][\A r \in DOMAIN req :
            /\ req'[r].submittedTo # req[r].submittedTo => req[r].status = 201
            /\ req[r].status # 0 =>
                 /\ req'[r].status = req[r].status
                 /\ req'[r].recordId = req[r].recordId
                 /\ req'[r].responses = req[r].responses]_vars

\* C13 witness: a background task failed after its PUT was issued, the request
\* keeps its one 201 response
C13_Witness ==
    \E r \in DOMAIN req :
        /\ req[r].pc = "bgFailed"
        /\ req[r].submittedTo # NoId
        /\ req[r].status = 201
        /\ req[r].responses = 1
        /\ req[r].recordId = req[r].sfdcId

\* The background task of request r is over and its patch did not go through:
\* a step threw, or updateConversationRecord returned without updating
EndedWithoutPatch(r) ==
    /\ req[r].status = 201
    /\ req[r].pc \in {"bgFailed", "bgDone"}
    /\ ~req[r].patched

\* C14: a background task that fails after the 201 acknowledgement writes
\* nothing to the CRM: none of its steps after the acknowledgement changes a
\* record unless it is the patch going through, and when no other request uses
\* the record, its conversation id, history, done flag and latest response are
\* those of the acknowledgement, the done flag not being true.
C14_FailureLeavesRecord ==
    /\ [](\A r \in DOMAIN req :
            /\ req[r].pc = "bgFailed" => ~req[r].patched
            /\ /\ EndedWithoutPatch(r)
               /\ \A q \in DOMAIN req \ {r} : req[q].sfdcId # req[r].sfdcId
               => /\ crm[req[r].sfdcId] = req[r].ackRecord
                  /\ ~crm[req[r].sfdcId].Chat_Done__c)
    /\ [][\A r \in DOMAIN req :
            /\ req[r].status = 201
            /\ req'[r] # req[r]
            /\ ~(req[r].pc = "patch" /\ req'[r].patched)
            => crm' = crm]_vars

\* C14 witness: a task failed in its poll loop; the record is as acknowledged
C14_Witness ==
    \E r \in DOMAIN req :
        /\ req[r].pc = "bgFailed"
        /\ req[r].loop.thrown # NoError
        /\ \A q \in DOMAIN req \ {r} : req[q].sfdcId # req[r].sfdcId
        /\ crm[req[r].sfdcId] = req[r].ackRecord
        /\ crm[req[r].sfdcId].exists

\* C15 as stated: every job whose poll loop saw a terminal payload issues the
\* record patch (the read of the history, then the update setting the done
\* flag), whatever the extracted content is, empty or missing included.
C15_CompletedJobPatches ==
    \A r \in DOMAIN req :
        req[r].loop.isDone /\ req[r].pc \in {"bgDone", "bgFailed"}
        => req[r].retrieveCalls >= 1

\* C16: a job reads the history at most once and issues the update at most
\* once; from the patch on it never goes back to submitting or polling, and a
\* job that ended, with a failed patch or otherwise, takes no further step.
C16_PatchFailureNotRetried ==
    /\ [](\A r \in DOMAIN req :
            req[r].retrieveCalls <= 1 /\ req[r].updateCalls <= 1)
    /\ [][\A r \in DOMAIN req :
            /\ req[r].pc \in {"retrieve", "patch"} =>
                 /\ req'[r].pc \in {"retrieve", "patch", "bgDone", "bgFailed"}
                 /\ req'[r].submittedTo = req[r].submittedTo
                 /\ req'[r].loop = req[r].loop
            /\ req[r].pc \in {"bgDone", "bgFailed"} => req'[r] = req[r]]_vars

\* C16 witness: the update of a completed run failed and the job is over
C16_Witness ==
    \E r \in DOMAIN req :
        /\ req[r].loop.isDone
        /\ req[r].updateCalls = 1
        /\ ~req[r].patched
        /\ req[r].pc \in {"bgDone", "bgFailed"}
        /\ ~crm[req[r].sfdcId].Chat_Done__c

(***************************************************************************)
(* Properties of the history text (TextSpec).                              *)
(***************************************************************************)
\* The text with each reserved character replaced by its entity, every other
\* character kept in place
RECURSIVE EntityWise(_)
EntityWise(str) ==
    IF str = <<>> THEN <<>>
    ELSE (IF Head(str) \in Reserved THEN Entity(Head(str)) ELSE <<Head(str)>>)
         \o EntityWise(Tail(str))

\* The positions (zero-based) at which </ul> occurs in h
ClosingTags(h) ==
    {k \in 0..(Len(h) - Len(UlClose)) : SubSeq(h, k + 1, k + Len(UlClose)) = UlClose}

\* C17: from an empty current history the new history is
\* <ul><li>ESCAPED_TEXT</li></ul>; from a history that contains </ul> it is the
\* current history with <li>ESCAPED_TEXT</li> inserted immediately before its
\* last </ul>, every character before and after kept in order.
C17_AppendHistory ==
    appends > 0 =>
        LET li == LiOpen \o EntityWise(content) \o LiClose
        IN  /\ previous = <<>> => stored = UlOpen \o li \o UlClose
            /\ ClosingTags(previous) # {} =>
                 \E k \in ClosingTags(previous) :
                    /\ \A j \in ClosingTags(previous) : j <= k
                    /\ stored = SubSeq(previous, 1, k) \o li
                                \o SubSeq(previous, k + 1, Len(previous))

\* C17 witness: an entry with a reserved character was inserted into a history
\* that has two closing tags and text after the last one
C17_Witness ==
    /\ appends = 1
    /\ Cardinality(ClosingTags(previous)) = 2
    /\ previous[Len(previous)] = " "
    /\ content = <<"<", "a">>
    /\ Len(stored) = Len(previous) + 14

\* C20: escapeHtml replaces each & < > " ' by &amp; &lt; &gt; &quot; &#39;,
\* keeps every other character unchanged and in place, and does not escape
\* the ampersand of an entity it wrote.
C20_EscapeHtml ==
    escaped.done => escaped.value = EntityWise(content)

\* C20 witness: a text with an ampersand and a quote was escaped
C20_Witness ==
    /\ escaped.done
    /\ content = <<"&", "'">>
    /\ escaped.value = <<"&", "a", "m", "p", ";", "&", "#", "3", "9", ";">>

(***************************************************************************)
(* Properties of the history of a tracking record (Spec).                  *)
(***************************************************************************)
\* The entry the update of request r writes
EntryOf(r) == LiOpen \o EntityWise(Chars(req[r].assistantContent)) \o LiClose

\* The updates of record id did not overlap: each read the history after all
\* the updates before it were written
Sequential(id) ==
    LET by == crm[id].patchedBy
    IN  \A i \in 1..Len(by) : req[by[i]].readAfter = SubSeq(by, 1, i - 1)

\* str occurs in h
Occurs(h, str) ==
    \E k \in 0..(Len(h) - Len(str)) : SubSeq(h, k + 1, k + Len(str)) = str

\* The run of request r completed and its background task is over
Completed(r) ==
    req[r].loop.isDone /\ req[r].pc \in {"bgDone", "bgFailed"}

\* C18 as amended: after updates of one record that did not overlap, the
\* history is one list with exactly one <li> entry per job whose update went
\* through, in the order of the updates; hence each update kept the earlier
\* entries unchanged and added its own last.
C18_HistoryAppendOnly ==
    \A id \in DOMAIN crm :
        LET by == crm[id].patchedBy
        IN  Sequential(id) =>
              crm[id].Conversation_History__c =
                 IF by = <<>> THEN <<>>
                 ELSE UlOpen \o Flatten([i \in 1..Len(by) |-> EntryOf(by[i])])
                      \o UlClose

\* C18 as stated: after non-overlapping completed jobs on one record the
\* history holds one <li> entry per completed job, in completion order, the
\* earlier entries unchanged.
C18_EntryPerCompletedJob ==
    /\ C18_HistoryAppendOnly
    /\ \A r \in DOMAIN req :
          Completed(r) /\ Sequential(req[r].sfdcId) =>
             \E i \in 1..Len(crm[req[r].sfdcId].patchedBy) :
                crm[req[r].sfdcId].patchedBy[i] = r

\* C18 witness: two jobs updated one record one after the other
C18_Witness ==
    \E id \in DOMAIN crm :
        /\ Len(crm[id].patchedBy) = 2
        /\ Sequential(id)
        /\ \A r \in DOMAIN req : req[r].assistantContent # NoId
        /\ Len(crm[id].Conversation_History__c) = 39

\* C19: when the update of a job is written over a history read before an
\* earlier update of the same record went through, the stored history holds
\* the later job's response and not the earlier one's, although both jobs
\* completed: the earlier update is lost.
C19_LostUpdate ==
    \A id \in DOMAIN crm :
        LET by == crm[id].patchedBy
        IN  \A i \in 1..(Len(by) - 1) :
               LET last  == by[Len(by)]
                   early == by[i]
               IN  /\ \A j \in 1..Len(req[last].readAfter) :
                          req[last].readAfter[j] # early
                   /\ req[early].assistantContent # NoId
                   => /\ ~Occurs(crm[id].Conversation_History__c, EntryOf(early))
                      /\ Occurs(crm[id].Conversation_History__c, EntryOf(last))
                      /\ req[early].patched /\ req[last].patched

\* C19 witness: both jobs are over, both updates went through, and the history
\* holds one entry
C19_Witness ==
    \E id \in DOMAIN crm :
        /\ Len(crm[id].patchedBy) = 2
        /\ ~Sequential(id)
        /\ \A r \in DOMAIN req :
              req[r].pc = "bgDone" /\ req[r].patched /\ req[r].assistantContent # NoId
        /\ crm[id].Conversation_History__c
              = UlOpen \o EntryOf(crm[id].patchedBy[2]) \o UlClose

(***************************************************************************)
(* Properties of the extraction (ExtractSpec).                             *)
(***************************************************************************)
\* The payload is a sequence of entries none of which is null
PlainEntries(p) ==
    p.k = "array" /\ \A i \in 1..Len(p.entries) : ~p.entries[i].nil

\* The role of the entry is "assistant" in any letter case
AssistantRole(e) == e.role \in {"assistant", "Assistant", "ASSISTANT"}

\* The part's type is "markdown" in any letter case
MarkdownType(part) == part.type \in {"markdown", "Markdown", "MARKDOWN"}

\* The content the order of preference of C21 selects from an entry: that of
\* its first markdown part, else that of its first part, else its own
Preferred(e) ==
    LET mds == {i \in 1..Len(e.parts) : MarkdownType(e.parts[i])}
        md  == CHOOSE i \in mds : \A j \in mds : i <= j
    IN  IF e.hasParts /\ mds # {} /\ e.parts[md].content # ""
        THEN e.parts[md].content
        ELSE IF e.hasParts /\ Len(e.parts) > 0 /\ e.parts[1].content # ""
        THEN e.parts[1].content
        ELSE e.content

\* The first entry whose role is "assistant", 0 when there is none
FirstAssistant(p) ==
    LET as == {i \in 1..Len(p.entries) : AssistantRole(p.entries[i])}
    IN  IF as = {} THEN 0 ELSE CHOOSE i \in as : \A j \in as : i <= j

\* C21 as stated: on a sequence payload the extraction takes the first entry
\* whose role is "assistant" (any case) and returns its markdown part's
\* content, else its first part's content, else its direct content, the
\* latter also when the entry has parts none of which carries content.
C21_ExtractionPreference ==
    /\ extraction.done
    /\ PlainEntries(payload)
    /\ FirstAssistant(payload) # 0
    /\ Preferred(payload.entries[FirstAssistant(payload)]) # ""
    => extraction.value
         = TextContent(Preferred(payload.entries[FirstAssistant(payload)]))

\* The extraction finds no assistant content in the payload: its shape is not
\* recognized (null entries included), it has no assistant entry, or that
\* entry carries no content
NothingFound(p) ==
    \/ p.k \notin {"array", "string"}
    \/ /\ p.k = "array"
       /\ \/ FirstAssistant(p) = 0
          \/ \E i \in 1..FirstAssistant(p) : p.entries[i].nil
          \/ Preferred(p.entries[FirstAssistant(p)]) = ""

\* C22 as stated: when nothing is found in a payload that is present, the
\* content is the serialization of the whole payload.
C22_FallbackSerializes ==
    /\ extraction.done
    /\ NothingFound(payload)
    /\ payload.k \notin {"null", "undefined"}
    => extraction.value = JsonContent(payload)

(***************************************************************************)
(* Properties of the steps before the poll loop (FlowSpec).                *)
(***************************************************************************)
\* C23 as stated: with a conversationId given no create-conversation call is
\* made; with none the create call is made before the input is submitted; and
\* no submit-input call is issued while the flow has no conversation id.
C23_NoSubmitWithoutConversation ==
    /\ params.conversationId # NoId => attempts["create"] = 0
    /\ params.conversationId = NoId /\ attempts["submit"] > 0 =>
          attempts["create"] = 1
    /\ attempts["submit"] > 0 => finalConversationId # NoId

\* C24 as stated: no poll request is issued for a flow whose submit-input
\* response carried no run identifier.
C24_NoPollWithoutRun ==
    attempts["poll"] > 0 => runId # NoId

(***************************************************************************)
(* Termination of a job (LiveSpec).  Every call a handler or a background  *)
(* task awaits returns, with a response or an error: each request's next   *)
(* step is weakly fair.  The poll loop counts consecutive failures only;   *)
(* nothing bounds the number of polls that answer without "done".          *)
(***************************************************************************)
\* A poll may also fail with an error that is not a 4xx status: the loop
\* counts it and goes on
JobStep(r) ==
    /\ \/ JobsNext(r)
       \/ JobsPoll(r, Failed(NetworkError))
    /\ UNCHANGED <<flowVars, textVars, extractVars, loopsVars, ctaVars, handler>>

\* The number of requests whose jobs are followed to their end
LiveReqs == 1

LiveInit == JobsStartState(1..LiveReqs) /\ FlowIdle /\ TextIdle /\ ExtractIdle /\ LoopsIdle /\ CtaIdle

LiveNext == \E r \in 1..LiveReqs : JobStep(r)

CallsReturn == \A r \in 1..LiveReqs : WF_vars(JobStep(r))

LiveSpec == LiveInit /\ [][LiveNext]_vars /\ CallsReturn

\* The background task of request r is over: Completed or Failed
JobEnded(r) == req[r].pc \in {"bgDone", "bgFailed"}

\* C25 as stated: once its orchestration has started, every job eventually
\* reaches Completed or Failed, every call returning a response or an error.
C25_EveryJobEnds ==
    \A r \in 1..LiveReqs : req[r].orchStarted ~> JobEnded(r)

\* C25: once its orchestration has started, a job eventually reaches Completed
\* or Failed, or it stays in its poll loop for ever; no other step is
\* repeated without end.
C25_EndsOrPollsForever ==
    \A r \in 1..LiveReqs :
        <>[](req[r].orchStarted => JobEnded(r) \/ req[r].pc = "poll")

\* A job that polled its run to the end, read the history and was over with
\* its record updated
C25_Witness ==
    \E r \in 1..LiveReqs : /\ req[r].orchStarted
                    /\ req[r].pc = "bgDone"
                    /\ req[r].loop.isDone
                    /\ req[r].patched

(***************************************************************************)
(* The two entry points (EntrySpec): a server of POST / handling one       *)
(* request, or a server of POST /jobs handling NumReqs requests.           *)
(***************************************************************************)
EntryInit == FlowInit \/ Init

EntryNext ==
    \/ FlowNext
    \/ \E r \in DOMAIN req :
          JobsNext(r) /\ UNCHANGED <<flowVars, textVars, extractVars, loopsVars, ctaVars, handler>>

EntrySpec == EntryInit /\ [][EntryNext]_vars

\* if (!access_token || !input || !context) of app.post('/')
FlowInvalid ==
    variant = "sync" /\ ~(params.access_token /\ params.input /\ params.context)

\* if (!sfdcToken || !parentRecordId) of app.post('/jobs')
JobInvalid(body) == ~body.sfdcToken \/ body.recordId = NoId

\* The locals of a request answered on arrival: nothing but the body, the
\* response and what was observed of the other requests differs from ReqInit
AnsweredOnArrival(rq, code) ==
    rq = [ReqInit EXCEPT !.pc = "ended", !.body = rq.body, !.status = code,
                         !.responses = 1, !.overlapped = rq.overlapped,
                         !.priorAcks = rq.priorAcks]

\* C26: POST / without access_token, input or context, and POST /jobs without
\* sfdcToken or parentRecordId, are answered 400 in the step that receives
\* them and have no side effect: no call to the conversation backend is
\* counted, no local of the request holds anything read from the CRM, the CRM
\* records are left as they were and no background task is started.
C26_ValidationHasNoSideEffect ==
    /\ [](FlowInvalid /\ pc # "start" =>
              /\ pc = "responded"
              /\ response.status = 400
              /\ \A c \in Calls : attempts[c] = 0
              /\ finalConversationId = params.conversationId
              /\ runId = NoId)
    /\ [](\A r \in DOMAIN req :
              JobInvalid(req[r].body) /\ req[r].pc # "idle" =>
                  AnsweredOnArrival(req[r], 400))
    /\ [][\A r \in DOMAIN req :
              req[r].pc = "idle" /\ req'[r].pc # "idle" /\ JobInvalid(req'[r].body) =>
                  crm' = crm /\ started' = started /\ acked' = acked]_vars

\* A request to POST /jobs without its parentRecordId was answered 400 while
\* an earlier request was being handled or had been acknowledged
C26_Witness ==
    \E r, q \in DOMAIN req :
        /\ req[r].pc = "ended" /\ req[r].status = 400
        /\ req[r].body.sfdcToken /\ req[r].body.recordId = NoId
        /\ q < r /\ req[q].status = 201 /\ req[q].orchStarted

(***************************************************************************)
(* Order of the outbound operations of one job (FlowSpec).                 *)
(***************************************************************************)
\* C27: within one job the outbound operations are strictly sequential in the
\* order [create conversation], submit input, polls, history read, record
\* update: a step issues one call, the one the job is waiting at; create,
\* submit, read and update are issued at most once; each is issued only after
\* the one before it has answered; no poll is issued once the loop is over;
\* and the read and the update are issued only after a terminal payload was
\* observed.
C27_StrictlySequential ==
    /\ [](/\ \A c \in Calls \ {"poll"} : attempts[c] <= 1
          /\ attempts["create"] > 0 => params.conversationId = NoId
          /\ attempts["submit"] > 0 =>
                /\ pc # "create"
                /\ params.conversationId = NoId => attempts["create"] = 1
          /\ attempts["poll"] > 0 =>
                attempts["submit"] = 1 /\ pc \notin {"create", "submit"}
          /\ attempts["retrieve"] > 0 \/ pc = "retrieve" =>
                /\ attempts["poll"] > 0
                /\ loop.isDone /\ lastPoll.ok /\ IsDoneResponse(lastPoll.data)
                /\ pc \notin {"create", "submit", "poll"}
          /\ attempts["update"] > 0 \/ pc = "update" =>
                /\ attempts["retrieve"] = 1
                /\ loop.isDone
                /\ pc \notin {"create", "submit", "poll", "retrieve"})
    /\ [][/\ attempts' # attempts =>
                pc \in Calls /\ attempts' = [attempts EXCEPT ![pc] = @ + 1]
          /\ attempts'["poll"] > attempts["poll"] =>
                ~loop.isDone /\ attempts["retrieve"] = 0 /\ attempts["update"] = 0
         ]_vars

\* A job that created its conversation, submitted the input, polled more than
\* once, read the history and updated the record
C27_Witness ==
    /\ variant = "job" /\ pc = "done"
    /\ attempts["create"] = 1 /\ attempts["submit"] = 1
    /\ attempts["poll"] > 1
    /\ attempts["retrieve"] = 1 /\ attempts["update"] = 1

(***************************************************************************)
(* The consecutive-failure count of the poll loop (FlowSpec).              *)
(***************************************************************************)
\* C28: a poll that returns a response, terminal or not, resets the
\* consecutive-failure count to zero, so the count is the number of failed
\* polls since the last answered one and failures separated by an answered
\* poll do not add up; whenever a poll is issued the count is between 0 and
\* maxConsecutiveErrors - 1 = 4.
C28_AnsweredPollResetsCount ==
    /\ [](/\ loop.consecutiveErrors = failStreak
          /\ pc = "poll" /\ LoopRunning(loop) =>
                loop.consecutiveErrors \in 0..(maxConsecutiveErrors - 1))
    /\ [][attempts'["poll"] > attempts["poll"] =>
             /\ loop.consecutiveErrors \in 0..4
             /\ lastPoll'.ok => loop'.consecutiveErrors = 0
             /\ ~lastPoll'.ok => loop'.consecutiveErrors = loop.consecutiveErrors + 1
         ]_vars

\* A loop still polling with four failures counted, after more polls than
\* that: an answered poll lies before the failures
C28_Witness ==
    /\ pc = "poll" /\ LoopRunning(loop)
    /\ loop.consecutiveErrors = maxConsecutiveErrors - 1
    /\ attempts["poll"] >= maxConsecutiveErrors + 1
    /\ ~lastPoll.ok

(***************************************************************************)
(* The tracking record in the handler of POST /jobs (Spec).                *)
(***************************************************************************)
\* The handler of request r has got past the creation of its tracking record
PastCreation(r) ==
    req[r].pc \notin {"idle", "connect", "query", "createConv", "createRec", "ended"}

\* C29: a failed lookup query is treated as "no existing record": the step in
\* which it fails answers nothing because of it (the only answer it can give
\* is app.js's 400 for a missing access_token) and leaves the handler on its
\* way to creating a record; a request whose lookup failed holds no existing
\* record or conversation, gets past the creation only with a record it
\* created itself, and is acknowledged only with that record's id.
C29_LookupFailureCreatesRecord ==
    /\ [](\A r \in Reqs :
             req[r].lookupFailed =>
                /\ ~req[r].isExisting
                /\ req[r].existingConversationId = NoId
                /\ PastCreation(r) =>
                      req[r].createdRecord /\ req[r].sfdcId = RecordIdOf(r)
                /\ req[r].status = 201 =>
                      /\ req[r].recordId = RecordIdOf(r)
                      /\ crm[RecordIdOf(r)].exists
                      /\ crm[RecordIdOf(r)].Parent_Record_Id__c =
                            req[r].body.recordId)
    /\ [][\A r \in Reqs :
             ~req[r].lookupFailed /\ req'[r].lookupFailed =>
                /\ req[r].pc = "query"
                /\ crm' = crm
                /\ IF handler = "app" /\ ~req[r].body.access_token
                   THEN req'[r].pc = "ended" /\ req'[r].status = 400
                   ELSE /\ req'[r].status = 0
                        /\ req'[r].pc = IF handler = "app" THEN "createConv"
                                        ELSE "createRec"
         ]_vars

\* A request whose lookup failed although a record with its key existed, and
\* which was acknowledged with the id of the record it created
C29_Witness ==
    \E r \in Reqs :
        /\ req[r].lookupFailed
        /\ req[r].status = 201
        /\ req[r].recordId = RecordIdOf(r)
        /\ \E id \in DOMAIN crm \ {RecordIdOf(r)} :
              /\ crm[id].exists
              /\ crm[id].Parent_Record_Id__c = req[r].body.recordId

\* C30: when the creation of the tracking record is rejected or throws, the
\* handler answers 500 in that step, leaving the CRM as it was; a request
\* that was answered without a 201 is never acknowledged and starts no
\* background orchestration; and a 201 always carries the id of an existing
\* record whose Parent_Record_Id__c is the request's parentRecordId.
C30_CreationFailureIsFatal ==
    /\ [](\A r \in Reqs :
             /\ req[r].pc = "ended" =>
                   /\ req[r].status \in {400, 500}
                   /\ req[r].responses = 1
                   /\ ~req[r].orchStarted
                   /\ \A i \in DOMAIN acked : acked[i] # r
                   /\ \A i \in DOMAIN started : started[i] # r
             /\ req[r].status = 201 =>
                   /\ req[r].recordId # NoId
                   /\ req[r].recordId \in DOMAIN crm
                   /\ crm[req[r].recordId].exists
                   /\ crm[req[r].recordId].Parent_Record_Id__c =
                         req[r].body.recordId)
    /\ [][\A r \in Reqs :
             req[r].pc = "createRec" /\ req'[r] # req[r] /\ ~req'[r].createdRecord =>
                /\ req'[r].pc = "ended"
                /\ req'[r].status = 500
                /\ crm' = crm
                /\ acked' = acked /\ started' = started
         ]_vars

\* The handler of app.js was answered a conversation id, had no record, and
\* answered 500 when the creation of the record failed
C30_Witness ==
    \E r \in Reqs :
        /\ handler = "app"
        /\ req[r].pc = "ended" /\ req[r].status = 500
        /\ req[r].conversationIdToUse # NoId
        /\ req[r].sfdcId = NoId /\ ~req[r].createdRecord

(***************************************************************************)
(* The mark-processing update (Spec).                                      *)
(***************************************************************************)
\* The background task of request r was launched: it is at its first await
TaskLaunched(rq) == rq.pc = IF handler = "app" THEN "collect" ELSE "bgConnect"

\* C31: the step that awaits the mark-processing update never answers with an
\* error, whether the update went through or not: app.js sends the 201 and
\* launches the background task in that step; part_001 does so when the
\* record holds a conversation id and otherwise goes on to create the
\* conversation, with no response sent yet.
C31_MarkFailureNotFatal ==
    [][\A r \in Reqs :
          req[r].pc = "mark" /\ req'[r] # req[r] =>
             IF handler = "app" \/ req[r].existingConversationId # NoId
             THEN /\ req'[r].status = 201
                  /\ req'[r].recordId = req[r].sfdcId
                  /\ req'[r].responses = 1
                  /\ TaskLaunched(req'[r])
                  /\ acked' = Append(acked, r)
             ELSE /\ req'[r].status = 0
                  /\ req'[r].responses = 0
                  /\ req'[r].pc = "createConv"
      ]_vars

\* A request acknowledged by app.js with its record still marked done by an
\* earlier job: its mark-processing update had failed
C31_Witness ==
    \E r \in Reqs :
        /\ handler = "app"
        /\ req[r].status = 201
        /\ req[r].ackRecord.Chat_Done__c
        /\ req[r].orchStarted

(***************************************************************************)
(* The done flag of a tracking record (Spec).                              *)
(***************************************************************************)
\* C32: the done flag, the latest response and the history are written by one
\* update: any step that turns the flag of a record to true is the update of
\* a job, and leaves the record with that job's response as latest response
\* and that job's entry in the history; and whenever a record is flagged done
\* its latest response and its history hold the response of the job that
\* updated it last.
C32_PatchIsOneUpdate ==
    /\ [](\A id \in DOMAIN crm :
             crm[id].Chat_Done__c =>
                /\ crm[id].patchedBy # <<>>
                /\ LET last == crm[id].patchedBy[Len(crm[id].patchedBy)]
                   IN  /\ crm[id].current_conversation__c =
                             req[last].assistantContent
                       /\ Occurs(crm[id].Conversation_History__c, EntryOf(last)))
    /\ [][\A id \in DOMAIN crm :
             ~crm[id].Chat_Done__c /\ crm'[id].Chat_Done__c =>
                \E r \in Reqs :
                   /\ req[r].pc = "patch" /\ req[r].sfdcId = id
                   /\ req'[r].patched
                   /\ crm'[id].patchedBy = Append(crm[id].patchedBy, r)
                   /\ crm'[id].current_conversation__c = req[r].assistantContent
                   /\ Occurs(crm'[id].Conversation_History__c, EntryOf(r))
         ]_vars

\* A record that was marked as processing at the acknowledgement of a job and
\* is flagged done by that job's update, with its answer
C32_Witness ==
    \E r \in Reqs :
        /\ req[r].patched
        /\ req[r].assistantContent # NoId
        /\ ~req[r].ackRecord.Chat_Done__c
        /\ crm[req[r].sfdcId].Chat_Done__c
        /\ crm[req[r].sfdcId].current_conversation__c = req[r].assistantContent
        /\ Occurs(crm[req[r].sfdcId].Conversation_History__c, EntryOf(r))

(***************************************************************************)
(* The collection of CRM data in the background task (Spec).               *)
(***************************************************************************)
\* C33: the step that awaits collectAllCTAData starts the orchestration
\* whether the collection resolved or was rejected; after a rejection the
\* prompt is built with empty data.  (processJobAsync of app.js then throws
\* at once when the request carried no access_token; otherwise the PUT is
\* the next call.)
C33_CollectFailureNotFatal ==
    /\ [][\A r \in Reqs :
             req[r].pc = "collect" /\ req'[r] # req[r] =>
                /\ req'[r].orchStarted
                /\ req'[r].wrapperDataString \in {"data", "{}"}
                /\ req'[r].pc = IF handler = "app" /\ ~req[r].body.access_token
                                THEN "bgFailed" ELSE "submit"
                /\ crm' = crm
         ]_vars
    /\ [](\A r \in Reqs :
             req[r].wrapperDataString = "data" =>
                req[r].orchStarted /\ (handler = "modular" => ~req[r].isExisting))

\* A job whose collection was rejected: it submitted its prompt with empty
\* data, polled to the end and updated the record
C33_Witness ==
    \E r \in Reqs :
        /\ handler = "app" \/ ~req[r].isExisting
        /\ req[r].orchStarted
        /\ req[r].wrapperDataString = "{}"
        /\ req[r].submittedTo # NoId
        /\ req[r].loop.isDone
        /\ req[r].patched

\* Request r was acknowledged and its background task is not over
Pending(r) == req[r].status = 201 /\ ~JobEnded(r)

\* r is the request acknowledged last among those of its tracking record
Newest(r) ==
    \A i, j \in DOMAIN acked :
        acked[i] = r /\ req[acked[j]].sfdcId = req[r].sfdcId => j <= i

\* C34 as stated: from the 201 of a job until that job's update, the done
\* flag of its tracking record is false, for the job acknowledged last on
\* the record.
C34_FlagFalseWhilePending ==
    \A r \in Reqs :
        Pending(r) /\ Newest(r) => ~crm[req[r].sfdcId].Chat_Done__c

\* C34: when the done flag of the record was false as the 201 of a job was
\* sent, it stays false as long as no job has updated the record since;
\* only an update of a job sets it.
C34_FlagFalseUntilAnUpdate ==
    \A r \in Reqs :
        /\ req[r].status = 201
        /\ ~req[r].ackRecord.Chat_Done__c
        /\ crm[req[r].sfdcId].patchedBy = req[r].ackRecord.patchedBy
        => ~crm[req[r].sfdcId].Chat_Done__c

\* A job polling its run on a record that an earlier job had flagged done:
\* the flag was cleared before the 201 and is still false
C34_Witness ==
    \E r \in Reqs :
        /\ req[r].status = 201 /\ req[r].pc = "poll"
        /\ req[r].ackRecord.patchedBy # <<>>
        /\ ~req[r].ackRecord.Chat_Done__c
        /\ crm[req[r].sfdcId].patchedBy = req[r].ackRecord.patchedBy
        /\ ~crm[req[r].sfdcId].Chat_Done__c

(***************************************************************************)
(* The conversation id of a tracking record (Spec).                        *)
(***************************************************************************)
\* C35 as stated: whenever a request is acknowledged with 201, the
\* conversation id stored in its tracking record equals the conversation id
\* its orchestration submits the input to.
C35_StoredEqualsSubmitted ==
    \A r \in Reqs :
        req[r].status = 201 =>
            /\ req[r].ackRecord.Conversation_Id__c = req[r].conversationIdToUse
            /\ req[r].submittedTo \in {NoId, req[r].conversationIdToUse}

\* C35: an acknowledged request has a conversation id and its orchestration
\* submits to it; it is the id found in the record when the request created
\* no conversation; the record holds it at the 201 when app.js created the
\* record, and when no lookup for the key failed, no requests for it
\* overlapped and the record holds an id at all.  Otherwise the record may
\* hold no id (the update that stores it failed) or the id of another
\* request's conversation.
C35_StoredOrBestEffort ==
    \A r \in Reqs :
        req[r].status = 201 =>
            LET held == req[r].ackRecord.Conversation_Id__c
            IN  /\ req[r].conversationIdToUse # NoId
                /\ req[r].submittedTo \in {NoId, req[r].conversationIdToUse}
                /\ req[r].createCalls = 0 =>
                      req[r].conversationIdToUse = req[r].existingConversationId
                /\ handler = "app" /\ req[r].createdRecord =>
                      held = req[r].conversationIdToUse
                /\ KeyClean(req[r].body.recordId) /\ held # NoId =>
                      held = req[r].conversationIdToUse
                /\ held # req[r].conversationIdToUse =>
                      held \in {NoId} \cup {ConvIdOf(q) : q \in Reqs \ {r}}

\* A request for a new key acknowledged by app.js: the record it created
\* holds the conversation its orchestration submitted to
C35_Witness ==
    \E r \in Reqs :
        /\ handler = "app" /\ req[r].status = 201 /\ req[r].createdRecord
        /\ req[r].submittedTo # NoId
        /\ req[r].ackRecord.Conversation_Id__c = req[r].submittedTo
        /\ crm[req[r].sfdcId].Conversation_Id__c = req[r].submittedTo

(***************************************************************************)
(* Error answers of POST /jobs (Spec).                                     *)
(***************************************************************************)
\* C36 as stated, for the creation of records: a request answered with an
\* error status (400 or 500) has created no tracking record.
C36_ErrorLeavesCrm ==
    \A r \in Reqs :
        req[r].status \in {400, 500} => ~req[r].createdRecord

\* C37 as stated: no request that lacks access_token is acknowledged with
\* 201, so no job fails after its acknowledgement for a missing access_token.
C37_AckedHasAccessToken ==
    \A r \in Reqs :
        req[r].status = 201 => req[r].body.access_token

(***************************************************************************)
(* The three copies of the poll loop fed one sequence of poll outcomes     *)
(* (LoopsSpec): app.post('/'), processJobAsync and processConversation.    *)
(***************************************************************************)
LoopsInit == LoopsIdle /\ FlowIdle /\ JobsIdle /\ TextIdle /\ ExtractIdle /\ CtaIdle

\* The next outcome of the sequence goes to every copy whose loop still runs
LoopsFeed(outcome) ==
    /\ \E v \in Variants : LoopRunning(loops[v])
    /\ \A v \in Variants : polls[v] < MaxPolls
    /\ loops' = [v \in Variants |->
                   IF LoopRunning(loops[v]) THEN PollStep(v, loops[v], outcome)
                   ELSE loops[v]]
    /\ polls' = [v \in Variants |->
                   IF LoopRunning(loops[v]) THEN polls[v] + 1 ELSE polls[v]]
    /\ UNCHANGED <<flowVars, jobVars, textVars, extractVars, ctaVars>>

LoopsNext == \E o \in PollOutcomes : LoopsFeed(o)

LoopsSpec == LoopsInit /\ [][LoopsNext]_vars

MaxOpps == 3
OppIds == 1..MaxOpps

\* What getOpportunityRecords may answer: distinct opportunities, in any order
OpportunityLists ==
    {l \in UNION {[1..n -> OppIds] : n \in 0..MaxOpps} :
        \A i, j \in DOMAIN l : i # j => l[i] # l[j]}

Items(l) == {l[i] : i \in DOMAIN l}

Occurrences(l, id) == Cardinality({i \in DOMAIN l : l[i] = id})

\* getOpportunityContactRoles: one row per opportunity with the roles the
\* primary contact holds on it; [] without ids or contact, and when the query fails
getOpportunityContactRoles(opportunityIds, primaryContactId, answered, withRole) ==
    IF Len(opportunityIds) = 0 \/ ~primaryContactId THEN <<>>
    ELSE IF ~answered THEN <<>>
    ELSE [i \in DOMAIN opportunityIds |->
             [Id |-> opportunityIds[i], hasRoles |-> opportunityIds[i] \in withRole]]

\* The organization of the opportunities: additionalOpportunities is
\* opportunityDataList itself, and the forEach pushes onto it
OrganizeOpportunities(opportunityDataList, primaryContactId, answered, withRole) ==
    IF primaryContactId /\ Len(opportunityDataList) > 0
    THEN LET oppsWithRoles ==
                 getOpportunityContactRoles(opportunityDataList, primaryContactId,
                                            answered, withRole)
             primaryContactOpps ==
                 {oppsWithRoles[i].Id : i \in {j \in DOMAIN oppsWithRoles :
                                                 oppsWithRoles[j].hasRoles}}
             has(id) == id \in primaryContactOpps
             hasNot(id) == id \notin primaryContactOpps
         IN  IF Len(oppsWithRoles) > 0
             THEN [relatedOpportunities |-> SelectSeq(opportunityDataList, has),
                   additionalOpportunities |->
                       opportunityDataList \o SelectSeq(opportunityDataList, hasNot)]
             ELSE [relatedOpportunities |-> <<>>,
                   additionalOpportunities |-> opportunityDataList]
    ELSE [relatedOpportunities |-> <<>>,
          additionalOpportunities |-> opportunityDataList]

CtaStartState ==
    \E p \in BOOLEAN, a \in BOOLEAN, l \in OpportunityLists :
    \E w \in SUBSET Items(l) :
        /\ (~p => w = {})
        /\ cta = [primaryContactId |-> p, opportunities |-> l, answered |-> a,
                  withRole |-> w, done |-> FALSE,
                  relatedOpportunities |-> <<>>, additionalOpportunities |-> <<>>]

CtaInit == CtaStartState /\ FlowIdle /\ JobsIdle /\ TextIdle /\ ExtractIdle /\ LoopsIdle

collectAllCTAData ==
    /\ ~cta.done
    /\ LET allData == OrganizeOpportunities(cta.opportunities, cta.primaryContactId,
                                            cta.answered, cta.withRole)
       IN  cta' = [cta EXCEPT !.done = TRUE,
                              !.relatedOpportunities = allData.relatedOpportunities,
                              !.additionalOpportunities = allData.additionalOpportunities]
    /\ UNCHANGED <<flowVars, jobVars, textVars, extractVars, loopsVars>>

CtaNext == collectAllCTAData

CtaSpec == CtaInit /\ [][CtaNext]_vars

\* C39: in the result of collectAllCTAData every fetched opportunity appears
\* exactly once across relatedOpportunities and additionalOpportunities: in
\* relatedOpportunities exactly when the primary contact holds a contact role
\* on it, otherwise in additionalOpportunities.
C39_OpportunitiesPartitioned ==
    cta.done =>
        \A id \in Items(cta.opportunities) :
            /\ Occurrences(cta.relatedOpportunities, id)
                 + Occurrences(cta.additionalOpportunities, id) = 1
            /\ (Occurrences(cta.relatedOpportunities, id) = 1) = (id \in cta.withRole)

=============================================================================
